---- MODULE Spec2Model ----
(***************************************************************************)
(* A model of the Ostle game core (ostle/core/board.py) and of the match   *)
(* drivers built on it (ostle/app/engine.py, ostle/app/benchmark.py).      *)
(*                                                                         *)
(* A board is the Python list of 25 cells, here a function on 0..24 with   *)
(* index = y*5 + x.  A move is the NamedTuple (x, y, dx, dy), here the     *)
(* tuple <<x, y, dx, dy>>; Python's None is the empty tuple.               *)
(***************************************************************************)
EXTENDS Integers, Sequences, FiniteSets, TLC

VARIABLES
    board,          \* the authoritative board (engine.board / benchmark board)
    turn,           \* the player to move
    state,          \* EngineState, or the position of a harness / benchmark run
    winner,         \* engine.winner / the value _play_one_game returns
    reason,         \* engine.reason
    history,        \* engine.history: sequence of <<board before, move>>
    prev_board,     \* benchmark's prev_board / the argument board of the last applied_move
    last_move,      \* the move of the last applied_move call
    plies,          \* number of applied_move calls that returned a board
    time_remaining, \* time budget of each player in ms
    move_queue,     \* engine.move_queue: the moves put and not yet taken
    workers,        \* the _ai_worker threads that have not finished yet
    resets,         \* number of reset() calls after construction
    started,        \* number of _ai_worker threads started since construction
    player_agents,  \* the driver's player_agents: the agent of each player
    heap,           \* the list objects holding boards: heap[r] is the content of object r
    call,           \* the last applied_move call on objects: argument and returned object
    human_queue,    \* HumanAgent._queue: the moves submitted and not yet taken
    frame           \* where the window's run loop stands in its frame

vars == <<board, turn, state, winner, reason, history, prev_board, last_move,
          plies, time_remaining, move_queue, workers, resets, started,
          player_agents, heap, call, human_queue, frame>>

driver_vars == <<time_remaining, move_queue, workers, resets, started, player_agents,
                 heap, call, human_queue, frame>>

\* longest sequence of moves explored from the initial board
MaxPlies == 3

-----------------------------------------------------------------------------
(* ostle/core/board.py: constants and Cell *)

BOARD_WIDTH == 5
BOARD_SIZE == BOARD_WIDTH * BOARD_WIDTH
HOLE_X == 2
HOLE_Y == 2
BLACK_ROW == 0
WHITE_ROW == BOARD_WIDTH - 1

EMPTY == 1
Player1 == 2
Player2 == 3
HOLE == 4

Cell == {EMPTY, Player1, Player2, HOLE}
Players == {Player1, Player2}

None == <<>>

\* Cell.opponent(); raises ValueError on EMPTY and HOLE, which no caller
\* modelled here passes, so the operator is left partial.
opponent(c) == CASE c = Player1 -> Player2
                 [] c = Player2 -> Player1

xy_to_index(x, y) == y * BOARD_WIDTH + x

is_in_board(x, y) == 0 <= x /\ x < BOARD_WIDTH /\ 0 <= y /\ y < BOARD_WIDTH

\* Move(x, y, dx, dy)
Move(x, y, dx, dy) == <<x, y, dx, dy>>

\* the direction list of get_legal_moves, in the order of the source
Dirs == << <<-1, 0>>, <<1, 0>>, <<0, -1>>, <<0, 1>> >>

\* create_initial_board with the two home rows exchanged.
create_initial_board_RowsSwapped ==
    [i \in 0..(BOARD_SIZE - 1) |->
        IF i = xy_to_index(HOLE_X, HOLE_Y) THEN HOLE
        ELSE IF i \div BOARD_WIDTH = WHITE_ROW THEN Player1
        ELSE IF i \div BOARD_WIDTH = BLACK_ROW THEN Player2
        ELSE EMPTY]

create_initial_board ==
    [i \in 0..(BOARD_SIZE - 1) |->
        IF i = xy_to_index(HOLE_X, HOLE_Y) THEN HOLE
        ELSE IF i \div BOARD_WIDTH = BLACK_ROW THEN Player1
        ELSE IF i \div BOARD_WIDTH = WHITE_ROW THEN Player2
        ELSE EMPTY]

\* MoveEmitted with a piece forbidden to step onto a piece of its own colour.
MoveEmitted_NoOwnPush(b, player, x, y, dx, dy) ==
    LET cell == b[xy_to_index(x, y)]
        nx == x + dx
        ny == y + dy
    IN  IF cell = player
        THEN is_in_board(nx, ny) /\ b[xy_to_index(nx, ny)] # player
        ELSE IF cell = HOLE
        THEN is_in_board(nx, ny) /\ b[xy_to_index(nx, ny)] = EMPTY
        ELSE FALSE

\* MoveEmitted with the Hole branch missing its test of the destination's
\* content: the Hole is offered every in-grid neighbour.
MoveEmitted_HoleOntoPiece(b, player, x, y, dx, dy) ==
    LET cell == b[xy_to_index(x, y)]
        nx == x + dx
        ny == y + dy
    IN  IF cell = player
        THEN is_in_board(nx, ny)
        ELSE IF cell = HOLE
        THEN is_in_board(nx, ny)
        ELSE FALSE

\* The test of one (cell, direction) pair inside get_legal_moves' loops:
\* is Move(x, y, dx, dy) appended?
MoveEmitted(b, player, x, y, dx, dy) ==
    LET cell == b[xy_to_index(x, y)]
        nx == x + dx
        ny == y + dy
    IN  IF cell = player
        THEN is_in_board(nx, ny)
        ELSE IF cell = HOLE
        THEN is_in_board(nx, ny) /\ b[xy_to_index(nx, ny)] = EMPTY
        ELSE FALSE

\* ScanMove with the two loops exchanged: x outermost, then y.
ScanMove_ColumnMajor(k) ==
    LET c == (k - 1) \div 4
        d == Dirs[((k - 1) % 4) + 1]
    IN  Move(c \div BOARD_WIDTH, c % BOARD_WIDTH, d[1], d[2])

\* The k-th (cell, direction) pair the loops of get_legal_moves visit:
\* y outermost, then x, then the direction list.
ScanMove(k) ==
    LET c == (k - 1) \div 4
        d == Dirs[((k - 1) % 4) + 1]
    IN  Move(c % BOARD_WIDTH, c \div BOARD_WIDTH, d[1], d[2])

\* every (cell, direction) pair in the order the loops visit them
ScanOrder == [k \in 1..(4 * BOARD_SIZE) |-> ScanMove(k)]

get_legal_moves(b, player) ==
    SelectSeq(ScanOrder, LAMBDA m : MoveEmitted(b, player, m[1], m[2], m[3], m[4]))

\* PushLoop with the carried piece forgotten when the walk steps onto the
\* next piece of the chain.
RECURSIVE PushLoop_DropCarry(_, _, _, _, _)
PushLoop_DropCarry(nb, move, cur_x, cur_y, prev_cell) ==
    LET new_x == cur_x + move[3]
        new_y == cur_y + move[4]
        cur == xy_to_index(cur_x, cur_y)
        new == xy_to_index(new_x, new_y)
    IN  IF ~is_in_board(new_x, new_y) \/ nb[new] = HOLE
        THEN [nb EXCEPT ![cur] = prev_cell]
        ELSE IF nb[new] = EMPTY
        THEN [nb EXCEPT ![new] = nb[cur], ![cur] = prev_cell]
        ELSE PushLoop_DropCarry([nb EXCEPT ![cur] = prev_cell], move, new_x, new_y, EMPTY)

\* PushLoop without the test for the Hole: the Hole is pushed like a piece.
RECURSIVE PushLoop_NoHoleTest(_, _, _, _, _)
PushLoop_NoHoleTest(nb, move, cur_x, cur_y, prev_cell) ==
    LET new_x == cur_x + move[3]
        new_y == cur_y + move[4]
        cur == xy_to_index(cur_x, cur_y)
        new == xy_to_index(new_x, new_y)
    IN  IF ~is_in_board(new_x, new_y)
        THEN [nb EXCEPT ![cur] = prev_cell]
        ELSE IF nb[new] = EMPTY
        THEN [nb EXCEPT ![new] = nb[cur], ![cur] = prev_cell]
        ELSE PushLoop_NoHoleTest([nb EXCEPT ![cur] = prev_cell], move, new_x, new_y, nb[cur])

\* PushLoop that stops at the edge or the Hole without writing the carried
\* cell: the last piece of the chain stays.
RECURSIVE PushLoop_KeepLast(_, _, _, _, _)
PushLoop_KeepLast(nb, move, cur_x, cur_y, prev_cell) ==
    LET new_x == cur_x + move[3]
        new_y == cur_y + move[4]
        cur == xy_to_index(cur_x, cur_y)
        new == xy_to_index(new_x, new_y)
    IN  IF ~is_in_board(new_x, new_y) \/ nb[new] = HOLE
        THEN nb
        ELSE IF nb[new] = EMPTY
        THEN [nb EXCEPT ![new] = nb[cur], ![cur] = prev_cell]
        ELSE PushLoop_KeepLast([nb EXCEPT ![cur] = prev_cell], move, new_x, new_y, nb[cur])

\* PushLoop that leaves the moving piece behind when it steps into an Empty
\* cell.
RECURSIVE PushLoop_NoClear(_, _, _, _, _)
PushLoop_NoClear(nb, move, cur_x, cur_y, prev_cell) ==
    LET new_x == cur_x + move[3]
        new_y == cur_y + move[4]
        cur == xy_to_index(cur_x, cur_y)
        new == xy_to_index(new_x, new_y)
    IN  IF ~is_in_board(new_x, new_y) \/ nb[new] = HOLE
        THEN [nb EXCEPT ![cur] = prev_cell]
        ELSE IF nb[new] = EMPTY
        THEN [nb EXCEPT ![new] = nb[cur]]
        ELSE PushLoop_NoClear([nb EXCEPT ![cur] = prev_cell], move, new_x, new_y, nb[cur])

\* PushLoop that writes Empty instead of the carried cell when the run is
\* stopped by the edge or the Hole.
RECURSIVE PushLoop_DropAtEdge(_, _, _, _, _)
PushLoop_DropAtEdge(nb, move, cur_x, cur_y, prev_cell) ==
    LET new_x == cur_x + move[3]
        new_y == cur_y + move[4]
        cur == xy_to_index(cur_x, cur_y)
        new == xy_to_index(new_x, new_y)
    IN  IF ~is_in_board(new_x, new_y) \/ nb[new] = HOLE
        THEN [nb EXCEPT ![cur] = EMPTY]
        ELSE IF nb[new] = EMPTY
        THEN [nb EXCEPT ![new] = nb[cur], ![cur] = prev_cell]
        ELSE PushLoop_DropAtEdge([nb EXCEPT ![cur] = prev_cell], move, new_x, new_y, nb[cur])

\* The while-loop of applied_move's piece branch, entered with the working
\* copy nb, the current cell (cur_x, cur_y) and the carried cell prev_cell.
RECURSIVE PushLoop(_, _, _, _, _)
PushLoop(nb, move, cur_x, cur_y, prev_cell) ==
    LET new_x == cur_x + move[3]
        new_y == cur_y + move[4]
        cur == xy_to_index(cur_x, cur_y)
        new == xy_to_index(new_x, new_y)
    IN  IF ~is_in_board(new_x, new_y) \/ nb[new] = HOLE
        THEN [nb EXCEPT ![cur] = prev_cell]
        ELSE IF nb[new] = EMPTY
        THEN [nb EXCEPT ![new] = nb[cur], ![cur] = prev_cell]
        ELSE PushLoop([nb EXCEPT ![cur] = prev_cell], move, new_x, new_y, nb[cur])

\* applied_move whose Hole branch does not clear the cell the Hole leaves.
applied_move_HoleStays(b, move) ==
    LET target_cell == b[xy_to_index(move[1], move[2])]
    IN  IF target_cell = HOLE
        THEN [b EXCEPT ![xy_to_index(move[1] + move[3], move[2] + move[4])] = HOLE]
        ELSE IF target_cell \in {Player1, Player2}
        THEN PushLoop(b, move, move[1], move[2], EMPTY)
        ELSE b

\* applied_move whose Hole branch returns the copy as it is.
applied_move_HoleNotMoved(b, move) ==
    LET target_cell == b[xy_to_index(move[1], move[2])]
    IN  IF target_cell = HOLE
        THEN b
        ELSE IF target_cell \in {Player1, Player2}
        THEN PushLoop(b, move, move[1], move[2], EMPTY)
        ELSE b

\* applied_move whose Hole branch computes the destination index with x and
\* y exchanged.
applied_move_HoleTransposed(b, move) ==
    LET target_cell == b[xy_to_index(move[1], move[2])]
    IN  IF target_cell = HOLE
        THEN [b EXCEPT ![xy_to_index(move[1], move[2])] = EMPTY,
                       ![xy_to_index(move[2] + move[4], move[1] + move[3])] = HOLE]
        ELSE IF target_cell \in {Player1, Player2}
        THEN PushLoop(b, move, move[1], move[2], EMPTY)
        ELSE b

\* applied_move(board, move) for a move with an in-range origin and
\* destination index; a fresh board is returned, the argument is a value.
applied_move(b, move) ==
    LET target_cell == b[xy_to_index(move[1], move[2])]
    IN  IF target_cell = HOLE
        THEN [b EXCEPT ![xy_to_index(move[1], move[2])] = EMPTY,
                       ![xy_to_index(move[1] + move[3], move[2] + move[4])] = HOLE]
        ELSE IF target_cell \in {Player1, Player2}
        THEN PushLoop(b, move, move[1], move[2], EMPTY)
        ELSE b

Count(b, c) == Cardinality({i \in DOMAIN b : b[i] = c})

\* sum(1 for cell in board if cell == c), over the cells i..24
RECURSIVE SumCells(_, _, _)
SumCells(b, c, i) ==
    IF i >= BOARD_SIZE THEN 0
    ELSE (IF b[i] = c THEN 1 ELSE 0) + SumCells(b, c, i + 1)

\* is_winner with the threshold one too low.
is_winner_AtMostTwo(b, player) ==
    LET opponent_count == SumCells(b, opponent(player), 0)
    IN  opponent_count <= 2

is_winner(b, player) ==
    LET opponent_count == SumCells(b, opponent(player), 0)
    IN  opponent_count <= 3

InSeq(s, e) == \E i \in 1..Len(s) : s[i] = e

-----------------------------------------------------------------------------
(* Boards the pure functions are applied to.  Chain pushes run along one   *)
(* line, so the family holds every way of filling one row or one column    *)
(* with Empty / Player1 / Player2 cells, the rest of the grid Empty, with  *)
(* the single Hole on that line or at its initial position; and the        *)
(* initial board.                                                          *)

LineCells == {EMPTY, Player1, Player2}

LineBoard(horizontal, line, pat, hole) ==
    [i \in 0..(BOARD_SIZE - 1) |->
        LET x == i % BOARD_WIDTH
            y == i \div BOARD_WIDTH
        IN  IF i = hole THEN HOLE
            ELSE IF horizontal /\ y = line THEN pat[x]
            ELSE IF ~horizontal /\ x = line THEN pat[y]
            ELSE EMPTY]

LineHoles(horizontal, line) ==
    {xy_to_index(HOLE_X, HOLE_Y)} \cup
    {IF horizontal THEN xy_to_index(k, line) ELSE xy_to_index(line, k) :
        k \in 0..(BOARD_WIDTH - 1)}

InitBoards ==
    {create_initial_board} \cup
    UNION {UNION {{LineBoard(h, l, pat, hole) : hole \in LineHoles(h, l)} :
                    pat \in [0..(BOARD_WIDTH - 1) -> LineCells]} :
            h \in BOOLEAN, l \in 0..(BOARD_WIDTH - 1)}

\* One call of get_legal_moves(board, turn) followed by applied_move on one
\* of the moves it returned.
InitBoard ==
    /\ board \in InitBoards
    /\ turn \in Players
    /\ state = "ready"
    /\ winner = None
    /\ reason = ""
    /\ history = <<>>
    /\ prev_board = None
    /\ last_move = None
    /\ plies = 0
    /\ time_remaining = None
    /\ move_queue = <<>>
    /\ workers = <<>>
    /\ resets = 0
    /\ started = 0
    /\ player_agents = None
    /\ heap = <<>>
    /\ call = None
    /\ human_queue = <<>>
    /\ frame = "update"

ApplyLegal ==
    /\ state = "ready"
    /\ \E k \in 1..Len(get_legal_moves(board, turn)) :
          LET m == get_legal_moves(board, turn)[k]
          IN  /\ prev_board' = board
              /\ last_move' = m
              /\ board' = applied_move(board, m)
    /\ state' = "applied"
    /\ plies' = plies + 1
    /\ UNCHANGED <<turn, winner, reason, history>>
    /\ UNCHANGED driver_vars

NextBoard == ApplyLegal

SpecBoard == InitBoard /\ [][NextBoard]_vars

\* Free play from create_initial_board(): any sequence of applied_move
\* calls, each on a move get_legal_moves returned for either player.
InitPlay ==
    /\ board = create_initial_board
    /\ turn \in Players
    /\ state = "play"
    /\ winner = None
    /\ reason = ""
    /\ history = <<>>
    /\ prev_board = None
    /\ last_move = None
    /\ plies = 0
    /\ time_remaining = None
    /\ move_queue = <<>>
    /\ workers = <<>>
    /\ resets = 0
    /\ started = 0
    /\ player_agents = None
    /\ heap = <<>>
    /\ call = None
    /\ human_queue = <<>>
    /\ frame = "update"

PlayMove ==
    /\ state = "play"
    /\ plies < MaxPlies
    /\ \E p \in Players :
          \E k \in 1..Len(get_legal_moves(board, p)) :
              LET m == get_legal_moves(board, p)[k]
              IN  /\ turn' = p
                  /\ prev_board' = board
                  /\ last_move' = m
                  /\ board' = applied_move(board, m)
    /\ plies' = plies + 1
    /\ UNCHANGED <<state, winner, reason, history>>
    /\ UNCHANGED driver_vars

NextPlay == PlayMove

SpecPlay == InitPlay /\ [][NextPlay]_vars

-----------------------------------------------------------------------------
(* applied_move on list objects.  A Python board is a mutable list; heap   *)
(* maps the identity of each list to its content, and applied_move takes   *)
(* and returns identities.                                                 *)

\* number of list objects a run creates
MaxBoards == 3

\* applied_move without the copy: new_board = board binds the argument
\* itself, and the writes land in it.
applied_move_obj_NoCopy(h, ref, move) ==
    LET new_board == ref
    IN  <<[h EXCEPT ![new_board] = applied_move(h[new_board], move)], new_board>>

\* applied_move(board, move) with board the list object ref:
\* new_board = board[:] creates a list, every write of the function goes to
\* new_board, and new_board is returned.  The result is <<heap, new_board>>.
applied_move_obj(h, ref, move) ==
    LET new_board == Len(h) + 1
        h1 == Append(h, h[ref])
    IN  <<[h1 EXCEPT ![new_board] = applied_move(h1[new_board], move)], new_board>>

\* The calls a search makes: next_board = applied_move(board, move) on any
\* board it holds (the root or a board an earlier call returned) and any
\* move get_legal_moves returns for either player.
InitHeap ==
    /\ heap = <<create_initial_board>>
    /\ call = None
    /\ human_queue = <<>>
    /\ frame = "update"
    /\ board = create_initial_board
    /\ turn \in Players
    /\ state = "search"
    /\ winner = None
    /\ reason = ""
    /\ history = <<>>
    /\ prev_board = None
    /\ last_move = None
    /\ plies = 0
    /\ time_remaining = None
    /\ move_queue = <<>>
    /\ workers = <<>>
    /\ resets = 0
    /\ started = 0
    /\ player_agents = None

SearchStep ==
    /\ state = "search"
    /\ Len(heap) < MaxBoards
    /\ \E ref \in 1..Len(heap), p \in Players :
          \E k \in 1..Len(get_legal_moves(heap[ref], p)) :
              LET m == get_legal_moves(heap[ref], p)[k]
                  r == applied_move_obj(heap, ref, m)
              IN  /\ heap' = r[1]
                  /\ call' = [arg |-> ref, ret |-> r[2]]
                  /\ prev_board' = heap[ref]
                  /\ last_move' = m
                  /\ board' = r[1][r[2]]
                  /\ turn' = p
    /\ plies' = plies + 1
    /\ UNCHANGED <<state, winner, reason, history, time_remaining, move_queue, workers,
                   resets, started, player_agents, human_queue, frame>>

NextHeap == SearchStep

SpecHeap == InitHeap /\ [][NextHeap]_vars

-----------------------------------------------------------------------------
(* ostle/agents: the search agents *)

\* float("inf"); every score an evaluation returns lies strictly between
\* -Inf and Inf
Inf == 1000000000

WIN_SCORE == 10000
LOSE_SCORE == -20000
SCORE_PER_PIECE == 100
SCORE_PER_CONTROL == 10
CENTER_POSITIONS == << <<1, 2>>, <<2, 1>>, <<2, 2>>, <<2, 3>>, <<3, 2>> >>

Agents == {"RandomAgent", "Kyawan", "KyawanV2", "InoueAgentKAI", "TheVoid", "InoueAgent"}

\* is_same_board(board, other): the two boards are identical; there is no
\* board equal to None
is_same_board(a, b) == b # None /\ a = b

\* x[i], x[j] = x[j], x[i] on a list indexed from 0
Swap(x, i, j) == [x EXCEPT ![i + 1] = x[j + 1], ![j + 1] = x[i + 1]]

\* random.shuffle(x): for i in reversed(range(1, len(x))): j = randbelow(i + 1);
\* x[i], x[j] = x[j], x[i].  The random generator is an input: draws[i] is
\* the value in 0..i that randbelow(i + 1) returns.  shuffle_loop is the
\* loop about to run its iteration i.
RECURSIVE shuffle_loop(_, _, _)
shuffle_loop(x, i, draws) ==
    IF i < 1 THEN x
    ELSE shuffle_loop(Swap(x, i, draws[i]), i - 1, draws)

shuffle(moves, draws) == shuffle_loop(moves, Len(moves) - 1, draws)

\* The outcomes of the random generator the searches are run on, named by a
\* seed: during a shuffle of n elements randbelow(i + 1) returns i (no
\* exchange) but for i = seed % n, where it returns 0, so that the seeds
\* 0..n-1 bring every element of the list to its front once.
SeedDraws(n, seed) == [i \in 1..(n - 1) |-> IF i = seed % n THEN 0 ELSE i]

\* KyawanAgent.evaluate(board, player, depth)
Kyawan_evaluate(b, player, depth) ==
    IF is_winner(b, player) THEN WIN_SCORE + depth
    ELSE IF is_winner(b, opponent(player)) THEN LOSE_SCORE - depth
    ELSE 0

\* KyawanAgentV2.evaluate(board, player, opponent, depth)
KyawanV2_evaluate(b, player, opp, depth) ==
    IF is_winner(b, player) THEN WIN_SCORE + depth
    ELSE IF is_winner(b, opp) THEN LOSE_SCORE - depth
    ELSE (SumCells(b, player, 0) - SumCells(b, opp, 0)) * SCORE_PER_PIECE

\* the loop over CENTER_POSITIONS of InoueAgentKAI.evaluate, from the i-th
RECURSIVE CenterScore(_, _, _, _)
CenterScore(b, player, opp, i) ==
    IF i > Len(CENTER_POSITIONS) THEN 0
    ELSE LET idx == CENTER_POSITIONS[i][2] * 5 + CENTER_POSITIONS[i][1]
         IN  (IF b[idx] = player THEN SCORE_PER_CONTROL
              ELSE IF b[idx] = opp THEN -SCORE_PER_CONTROL
              ELSE 0) + CenterScore(b, player, opp, i + 1)

\* InoueAgentKAI.evaluate(board, player, opponent, depth, time_remaining)
KAI_evaluate(b, player, opp, depth, tr) ==
    IF is_winner(b, player) THEN WIN_SCORE + depth
    ELSE IF is_winner(b, opp) THEN LOSE_SCORE - depth
    ELSE (SumCells(b, player, 0) - SumCells(b, opp, 0)) * SCORE_PER_PIECE
         + (Len(get_legal_moves(b, player)) - Len(get_legal_moves(b, opp)))
              * SCORE_PER_CONTROL
         + (IF tr >= 800 THEN CenterScore(b, player, opp, 1) ELSE 0)

\* the evaluate of the negamax agent `agent`
evaluate(agent, b, player, depth, tr) ==
    CASE agent = "Kyawan" -> Kyawan_evaluate(b, player, depth)
      [] agent = "KyawanV2" -> KyawanV2_evaluate(b, player, opponent(player), depth)
      [] agent = "InoueAgentKAI" -> KAI_evaluate(b, player, opponent(player), depth, tr)

\* negamax(player, board, prev_board, depth, alpha, beta) of KyawanAgent,
\* KyawanAgentV2 and InoueAgentKAI (the same code but for evaluate);
\* returns <<best_score, best_move>>.  negamax_loop is its for-loop, about
\* to try moves[i].
RECURSIVE negamax(_, _, _, _, _, _, _, _, _)
RECURSIVE negamax_loop(_, _, _, _, _, _, _, _, _, _, _, _, _)
\* the for-loop handing the child the window (-alpha, -beta)
negamax_loop_WindowNotSwapped(agent, player, b, prev, depth, alpha, beta, tr, seed, moves, i, best_score, best_move) ==
    IF i > Len(moves) THEN <<best_score, best_move>>
    ELSE
      LET move == moves[i]
          next_board == applied_move(b, move)
      IN  IF is_same_board(next_board, prev)
          THEN negamax_loop(agent, player, b, prev, depth, alpha, beta, tr, seed,
                            moves, i + 1, best_score, best_move)
          ELSE
            LET score == -(negamax(agent, opponent(player), next_board, b,
                                   depth - 1, -alpha, -beta, tr, seed + i)[1])
                new_best == IF score > best_score THEN score ELSE best_score
                new_move == IF score > best_score THEN move ELSE best_move
                new_alpha == IF alpha > score THEN alpha ELSE score
            IN  IF new_alpha >= beta THEN <<new_best, new_move>>
                ELSE negamax_loop(agent, player, b, prev, depth, new_alpha, beta,
                                  tr, seed, moves, i + 1, new_best, new_move)

negamax_loop(agent, player, b, prev, depth, alpha, beta, tr, seed, moves, i, best_score, best_move) ==
    IF i > Len(moves) THEN <<best_score, best_move>>
    ELSE
      LET move == moves[i]
          next_board == applied_move(b, move)
      IN  IF is_same_board(next_board, prev)
          THEN negamax_loop(agent, player, b, prev, depth, alpha, beta, tr, seed,
                            moves, i + 1, best_score, best_move)
          ELSE
            LET score == -(negamax(agent, opponent(player), next_board, b,
                                   depth - 1, -beta, -alpha, tr, seed + i)[1])
                new_best == IF score > best_score THEN score ELSE best_score
                new_move == IF score > best_score THEN move ELSE best_move
                new_alpha == IF alpha > score THEN alpha ELSE score
            IN  IF new_alpha >= beta THEN <<new_best, new_move>>
                ELSE negamax_loop(agent, player, b, prev, depth, new_alpha, beta,
                                  tr, seed, moves, i + 1, new_best, new_move)

negamax(agent, player, b, prev, depth, alpha, beta, tr, seed) ==
    IF depth = 0 THEN <<evaluate(agent, b, player, depth, tr), None>>
    ELSE negamax_loop(agent, player, b, prev, depth, alpha, beta, tr, seed,
                      shuffle(get_legal_moves(b, player),
                              SeedDraws(Len(get_legal_moves(b, player)), seed)),
                      1, -Inf, None)

\* The moves negamax(player, board, prev_board, depth, -inf, inf)[1] may be
\* over the orders random.shuffle gives the moves.  At the root beta is inf,
\* so the loop never breaks; it searches a move with alpha = best_score and
\* keeps it on `score > best_score` only, and a search returns a score above
\* its alpha only if that is the move's score in every order.  The move
\* returned is thus the first, in the shuffled order, of the moves of the
\* largest score V, and each of them is the first in some order.  A move is
\* one of them when its search with alpha = V - 1 returns V (the scores are
\* whole numbers); when no move is searched, or none scores above -inf,
\* best_move stays None.
negamax_returns(agent, player, b, prev, depth, tr) ==
    LET V == negamax(agent, player, b, prev, depth, -Inf, Inf, tr, 0)[1]
        moves == get_legal_moves(b, player)
        score(k) == -(negamax(agent, opponent(player), applied_move(b, moves[k]), b,
                              depth - 1, -Inf, -(V - 1), tr, 0)[1])
    IN  IF depth = 0 \/ V = -Inf THEN {None}
        ELSE {moves[k] : k \in {j \in 1..Len(moves) :
                                    /\ ~is_same_board(applied_move(b, moves[j]), prev)
                                    /\ score(j) >= V}}

\* KyawanAgent.calc_best_move: the moves it may return
Kyawan_calc_best_move(b, prev, player, tr) ==
    negamax_returns("Kyawan", player, b, prev, 5, tr)

\* the depth table of KyawanAgentV2.calc_best_move / InoueAgentKAI.calc_best_move
DepthForTime(tr) == IF tr < 1000 THEN 3 ELSE IF tr < 3000 THEN 4 ELSE 5

\* KyawanAgentV2.calc_best_move: the moves it may return
KyawanV2_calc_best_move(b, prev, player, tr) ==
    negamax_returns("KyawanV2", player, b, prev, DepthForTime(tr), tr)

\* InoueAgentKAI.calc_best_move: the moves it may return
KAI_calc_best_move(b, prev, player, tr) ==
    negamax_returns("InoueAgentKAI", player, b, prev, DepthForTime(tr), tr)

\* RandomAgent.calc_best_move: raises ValueError when there is no legal
\* move, else random.choice(legal_moves); the set of values it may return
Raised == <<"ValueError">>

Random_calc_best_move(b, prev, player, tr) ==
    LET legal_moves == get_legal_moves(b, player)
    IN  IF legal_moves = <<>> THEN {Raised}
        ELSE {legal_moves[k] : k \in 1..Len(legal_moves)}

\* TheVoidAgent.evaluate(board, player): the loop over the cells from i on
RECURSIVE TheVoid_cells(_, _, _, _)
TheVoid_cells(b, player, opp, i) ==
    IF i >= 25 THEN 0
    ELSE LET x == i % 5
             y == i \div 5
             central == 0 < x /\ x < 4 /\ 0 < y /\ y < 4
         IN  (IF b[i] = player THEN (IF central THEN 10 ELSE 0)
              ELSE IF b[i] = opp THEN (IF central THEN -10 ELSE 0)
              ELSE 0) + TheVoid_cells(b, player, opp, i + 1)

TheVoid_evaluate(b, player) ==
    LET opp == opponent(player)
    IN  TheVoid_cells(b, player, opp, 0)
          + (SumCells(b, player, 0) - SumCells(b, opp, 0)) * 1000

\* the sort key of TheVoidAgent._minimax: 0 for a move whose destination
\* holds an opponent piece, else 1
TheVoid_key(b, opp, m) ==
    LET idx == IF 0 <= m[1] + m[3] /\ m[1] + m[3] < 5
                    /\ 0 <= m[2] + m[4] /\ m[2] + m[4] < 5
               THEN m[2] * 5 + m[1] + m[3] + m[4] * 5
               ELSE 0
    IN  IF b[idx] = opp THEN 0 ELSE 1

\* moves.sort(key=...): a stable sort on a key with two values
TheVoid_sorted(b, opp, moves) ==
    SelectSeq(moves, LAMBDA m : TheVoid_key(b, opp, m) = 0)
        \o SelectSeq(moves, LAMBDA m : TheVoid_key(b, opp, m) = 1)

\* TheVoidAgent._minimax(board, prev_board, player, depth, alpha, beta);
\* returns <<alpha, best_m>>.  TheVoid_loop is its for-loop, about to try
\* moves[i].
RECURSIVE TheVoid_minimax(_, _, _, _, _, _)
RECURSIVE TheVoid_loop(_, _, _, _, _, _, _, _, _)
TheVoid_loop(b, prev, player, depth, alpha, beta, moves, i, best_m) ==
    IF i > Len(moves) THEN <<alpha, best_m>>
    ELSE
      LET m == moves[i]
          next_b == applied_move(b, m)
      IN  IF prev # None /\ is_same_board(next_b, prev)
          THEN TheVoid_loop(b, prev, player, depth, alpha, beta, moves, i + 1, best_m)
          ELSE
            LET val == -(TheVoid_minimax(next_b, b, opponent(player), depth - 1,
                                         -beta, -alpha)[1])
                new_alpha == IF val > alpha THEN val ELSE alpha
                new_m == IF val > alpha THEN m ELSE best_m
            IN  IF new_alpha >= beta THEN <<new_alpha, new_m>>
                ELSE TheVoid_loop(b, prev, player, depth, new_alpha, beta, moves,
                                  i + 1, new_m)

TheVoid_minimax(b, prev, player, depth, alpha, beta) ==
    LET opp == opponent(player)
    IN  IF is_winner(b, player) THEN <<10000 + depth, None>>
        ELSE IF is_winner(b, opp) THEN <<-10000 - depth, None>>
        ELSE IF depth = 0 THEN <<TheVoid_evaluate(b, player), None>>
        ELSE TheVoid_loop(b, prev, player, depth, alpha, beta,
                          TheVoid_sorted(b, opp, get_legal_moves(b, player)), 1, None)

\* the immediate-win scan of TheVoidAgent.calc_best_move: the first legal
\* move after which the player satisfies the win condition, or None
TheVoid_first_win(b, player, legal_moves) ==
    LET wins == SelectSeq(legal_moves, LAMBDA m : is_winner(applied_move(b, m), player))
    IN  IF wins = <<>> THEN None ELSE wins[1]

\* calc_best_move without the immediate-win scan
TheVoid_calc_best_move_SearchOnly(b, prev, player, time_remaining_ms) ==
    LET legal_moves == get_legal_moves(b, player)
        depth == IF time_remaining_ms > 500 THEN 3 ELSE 2
        best_move == TheVoid_minimax(b, prev, player, depth, -99999, 99999)[2]
    IN  IF legal_moves = <<>> THEN None
        ELSE IF best_move # None THEN best_move
        ELSE legal_moves[1]

\* TheVoidAgent.calc_best_move
TheVoid_calc_best_move(b, prev, player, time_remaining_ms) ==
    LET legal_moves == get_legal_moves(b, player)
        depth == IF time_remaining_ms > 500 THEN 3 ELSE 2
        best_move == TheVoid_minimax(b, prev, player, depth, -99999, 99999)[2]
    IN  IF legal_moves = <<>> THEN None
        ELSE IF TheVoid_first_win(b, player, legal_moves) # None
        THEN TheVoid_first_win(b, player, legal_moves)
        ELSE IF best_move # None THEN best_move
        ELSE legal_moves[1]

\* InoueAgent.  The wall clock is an input: `deadline` is the number of
\* _is_time_over calls (counted by clk) made before time.time() - start_time
\* reaches time_limit; the clock is monotonic, so every later call sees the
\* limit passed too.
MAX_DEPTH == 4

\* time_limit = max(0.0, time_remaining - time_buffer) > 0, for a whole
\* number time_remaining and time_buffer = 0.02
Inoue_has_limit(tr) == tr >= 1

\* InoueAgent._is_time_over(start_time, time_limit) at the (clk+1)-th call
Inoue_is_time_over(has_limit, clk, deadline) ==
    (clk >= deadline) /\ has_limit

\* InoueAgent._evaluate(board, player)
Inoue_evaluate(b, player) ==
    IF is_winner(b, player) THEN 10000
    ELSE IF is_winner(b, opponent(player)) THEN -10000
    ELSE (SumCells(b, player, 0) - SumCells(b, opponent(player), 0)) * 100
         + (Len(get_legal_moves(b, player))
              - Len(get_legal_moves(b, opponent(player)))) * 3

Max(a, b) == IF a >= b THEN a ELSE b
Min(a, b) == IF a <= b THEN a ELSE b

\* InoueAgent._alphabeta; returns <<value, clk>>.  Inoue_loop is the
\* for-loop of the maximising (turn == root_player, here to_move) or minimising
\* branch,
\* about to try moves[i].
RECURSIVE Inoue_alphabeta(_, _, _, _, _, _, _, _, _)
RECURSIVE Inoue_loop(_, _, _, _, _, _, _, _, _, _, _, _)
Inoue_loop(b, to_move, depth, alpha, beta, root_player, has_limit, clk, deadline, moves, i, value) ==
    IF i > Len(moves) THEN <<value, clk>>
    ELSE IF Inoue_is_time_over(has_limit, clk, deadline) THEN <<value, clk + 1>>
    ELSE
      LET r == Inoue_alphabeta(applied_move(b, moves[i]), opponent(to_move), depth - 1,
                               alpha, beta, root_player, has_limit, clk + 1, deadline)
      IN  IF to_move = root_player
          THEN LET new_value == Max(value, r[1])
                   new_alpha == Max(alpha, new_value)
               IN  IF new_alpha >= beta THEN <<new_value, r[2]>>
                   ELSE Inoue_loop(b, to_move, depth, new_alpha, beta, root_player,
                                   has_limit, r[2], deadline, moves, i + 1, new_value)
          ELSE LET new_value == Min(value, r[1])
                   new_beta == Min(beta, new_value)
               IN  IF alpha >= new_beta THEN <<new_value, r[2]>>
                   ELSE Inoue_loop(b, to_move, depth, alpha, new_beta, root_player,
                                   has_limit, r[2], deadline, moves, i + 1, new_value)

Inoue_alphabeta(b, to_move, depth, alpha, beta, root_player, has_limit, clk, deadline) ==
    IF Inoue_is_time_over(has_limit, clk, deadline)
    THEN <<Inoue_evaluate(b, root_player), clk + 1>>
    ELSE IF depth = 0 \/ is_winner(b, root_player)
                \/ is_winner(b, opponent(root_player))
    THEN <<Inoue_evaluate(b, root_player), clk + 1>>
    ELSE IF get_legal_moves(b, to_move) = <<>>
    THEN <<Inoue_evaluate(b, root_player), clk + 1>>
    ELSE Inoue_loop(b, to_move, depth, alpha, beta, root_player, has_limit, clk + 1,
                    deadline, get_legal_moves(b, to_move), 1,
                    IF to_move = root_player THEN -Inf ELSE Inf)

\* InoueAgent._search_root; returns <<best_score, best_move, clk>>.
\* Inoue_root_loop is its for-loop, about to try moves[i].
RECURSIVE Inoue_root_loop(_, _, _, _, _, _, _, _, _, _, _)
Inoue_root_loop(b, player, depth, has_limit, clk, deadline, moves, i, alpha, best_score, best_move) ==
    IF i > Len(moves) THEN <<best_score, best_move, clk>>
    ELSE IF Inoue_is_time_over(has_limit, clk, deadline)
    THEN <<best_score, best_move, clk + 1>>
    ELSE
      LET r == Inoue_alphabeta(applied_move(b, moves[i]), opponent(player), depth - 1,
                               alpha, Inf, player, has_limit, clk + 1, deadline)
          new_score == IF r[1] > best_score THEN r[1] ELSE best_score
          new_move == IF r[1] > best_score THEN moves[i] ELSE best_move
      IN  Inoue_root_loop(b, player, depth, has_limit, r[2], deadline, moves, i + 1,
                          Max(alpha, new_score), new_score, new_move)

Inoue_search_root(b, player, depth, has_limit, clk, deadline) ==
    Inoue_root_loop(b, player, depth, has_limit, clk, deadline,
                    get_legal_moves(b, player), 1, -Inf, -Inf, None)

\* the iterative-deepening loop of InoueAgent.calc_best_move, about to run
\* the iteration `depth`; returns <<best_move, late>>, late counting the
\* iterations started at a reading of the clock at which the time limit
\* had passed (clk >= deadline)
RECURSIVE Inoue_deepen(_, _, _, _, _, _, _, _, _)
Inoue_deepen(b, player, depth, max_depth, has_limit, clk, deadline, best_move, late) ==
    IF depth > max_depth THEN <<best_move, late>>
    ELSE IF Inoue_is_time_over(has_limit, clk, deadline) THEN <<best_move, late>>
    ELSE LET r == Inoue_search_root(b, player, depth, has_limit, clk + 1, deadline)
         IN  Inoue_deepen(b, player, depth + 1, max_depth, has_limit, r[3], deadline,
                          IF r[2] # None THEN r[2] ELSE best_move,
                          IF clk >= deadline THEN late + 1 ELSE late)

\* InoueAgent.calc_best_move
Inoue_calc_best_move(b, prev, player, tr, deadline) ==
    LET legal_moves == get_legal_moves(b, player)
    IN  IF legal_moves = <<>> THEN Raised
        ELSE Inoue_deepen(b, player, 1, MAX_DEPTH, Inoue_has_limit(tr),
                          0, deadline, legal_moves[1], 0)[1]

\* the number of depth iterations a call of InoueAgent.calc_best_move starts
\* after its time limit has passed
Inoue_late_iterations(b, player, tr, deadline) ==
    Inoue_deepen(b, player, 1, MAX_DEPTH, Inoue_has_limit(tr),
                 0, deadline, None, 0)[2]

\* What a call returns over the readings of the clock at which its time
\* limit may pass.  The clock is read at the head of _alphabeta and before
\* every move of a loop; once a reading finds the limit passed every later
\* one does, so each loop on the stack breaks at its next reading and
\* returns what it holds.  Up to that reading the call runs as it does with
\* no limit.  Inoue_alphabeta_cut returns <<value, cuts>>: the value of
\* _alphabeta when the limit does not pass during it, and the values it
\* returns when the limit passes at one of its readings; Inoue_loop_cut is
\* its for-loop about to try moves[i].
RECURSIVE Inoue_alphabeta_cut(_, _, _, _, _, _)
RECURSIVE Inoue_loop_cut(_, _, _, _, _, _, _, _, _, _)
Inoue_loop_cut(b, to_move, depth, alpha, beta, root_player, moves, i, value, cuts) ==
    IF i > Len(moves) THEN <<value, cuts>>
    ELSE
      LET r == Inoue_alphabeta_cut(applied_move(b, moves[i]), opponent(to_move),
                                   depth - 1, alpha, beta, root_player)
      IN  IF to_move = root_player
          THEN LET new_value == Max(value, r[1])
                   new_alpha == Max(alpha, new_value)
                   new_cuts == cuts \cup {value} \cup {Max(value, c) : c \in r[2]}
               IN  IF new_alpha >= beta THEN <<new_value, new_cuts>>
                   ELSE Inoue_loop_cut(b, to_move, depth, new_alpha, beta, root_player,
                                       moves, i + 1, new_value, new_cuts)
          ELSE LET new_value == Min(value, r[1])
                   new_beta == Min(beta, new_value)
                   new_cuts == cuts \cup {value} \cup {Min(value, c) : c \in r[2]}
               IN  IF alpha >= new_beta THEN <<new_value, new_cuts>>
                   ELSE Inoue_loop_cut(b, to_move, depth, alpha, new_beta, root_player,
                                       moves, i + 1, new_value, new_cuts)

Inoue_alphabeta_cut(b, to_move, depth, alpha, beta, root_player) ==
    IF depth = 0 \/ is_winner(b, root_player)
            \/ is_winner(b, opponent(root_player))
            \/ get_legal_moves(b, to_move) = <<>>
    THEN <<Inoue_evaluate(b, root_player), {Inoue_evaluate(b, root_player)}>>
    ELSE LET r == Inoue_loop_cut(b, to_move, depth, alpha, beta, root_player,
                                 get_legal_moves(b, to_move), 1,
                                 IF to_move = root_player THEN -Inf ELSE Inf, {})
         IN  <<r[1], r[2] \cup {Inoue_evaluate(b, root_player)}>>

\* the for-loop of _search_root about to try moves[i]; returns
\* <<best_score, best_move, cuts>>, cuts being the values of best_move it
\* returns when the limit passes at one of its readings
RECURSIVE Inoue_root_loop_cut(_, _, _, _, _, _, _, _, _)
Inoue_root_loop_cut(b, player, depth, moves, i, alpha, best_score, best_move, cuts) ==
    IF i > Len(moves) THEN <<best_score, best_move, cuts>>
    ELSE
      LET r == Inoue_alphabeta_cut(applied_move(b, moves[i]), opponent(player),
                                   depth - 1, alpha, Inf, player)
          new_score == IF r[1] > best_score THEN r[1] ELSE best_score
          new_move == IF r[1] > best_score THEN moves[i] ELSE best_move
          new_cuts == cuts \cup {best_move}
                        \cup {IF c > best_score THEN moves[i] ELSE best_move : c \in r[2]}
      IN  Inoue_root_loop_cut(b, player, depth, moves, i + 1, Max(alpha, new_score),
                              new_score, new_move, new_cuts)

\* the iterative-deepening loop about to run the iteration `depth`;
\* returns the moves calc_best_move returns when the limit passes at one of
\* the readings from here on, or at none
RECURSIVE Inoue_deepen_cut(_, _, _, _, _, _)
Inoue_deepen_cut(b, player, depth, max_depth, best_move, returns) ==
    IF depth > max_depth THEN returns \cup {best_move}
    ELSE LET r == Inoue_root_loop_cut(b, player, depth, get_legal_moves(b, player),
                                      1, -Inf, -Inf, None, {})
         IN  Inoue_deepen_cut(b, player, depth + 1, max_depth,
                              IF r[2] # None THEN r[2] ELSE best_move,
                              returns \cup {best_move}
                                  \cup {IF m # None THEN m ELSE best_move : m \in r[3]})

\* calc_best_move without the initial best_move = legal_moves[0]: the
\* iterations start from no move at all
Inoue_returns_NoFallback(b, prev, player, tr) ==
    IF get_legal_moves(b, player) = <<>> THEN {Raised}
    ELSE IF Inoue_has_limit(tr)
    THEN Inoue_deepen_cut(b, player, 1, MAX_DEPTH, None, {})
    ELSE {Inoue_calc_best_move(b, prev, player, tr, Inf)}

\* The values InoueAgent.calc_best_move may return, over the readings of
\* time.time(): with time_limit > 0 the limit may pass at any reading of the
\* call or at none, with time_limit = 0 it never passes
Inoue_returns(b, prev, player, tr) ==
    IF get_legal_moves(b, player) = <<>> THEN {Raised}
    ELSE IF Inoue_has_limit(tr)
    THEN Inoue_deepen_cut(b, player, 1, MAX_DEPTH, get_legal_moves(b, player)[1], {})
    ELSE {Inoue_calc_best_move(b, prev, player, tr, Inf)}

\* the number of readings of the clock a call of
\* InoueAgent.calc_best_move has made after its iterations depth..MAX_DEPTH
\* when the limit does not pass, clk being the number made before them
RECURSIVE Inoue_readings(_, _, _, _)
Inoue_readings(b, player, depth, clk) ==
    IF depth > MAX_DEPTH THEN clk
    ELSE Inoue_readings(b, player, depth + 1,
                        Inoue_search_root(b, player, depth, TRUE, clk + 1, Inf)[3])

\* the readings of time.time() at which the limit of a call may pass: with
\* time_limit > 0 any reading the call makes, or none; with time_limit = 0
\* no reading passes the limit
Inoue_deadlines(b, player, tr) ==
    IF Inoue_has_limit(tr)
    THEN (0..Inoue_readings(b, player, 1, 0)) \cup {Inf}
    ELSE {Inf}

\* the seeds 0..MaxSeed of the orders of random.shuffle on which a search
\* is compared with the exhaustive one
MaxSeed == 1

\* The values agent.calc_best_move(board, prev_board, player, time_remaining)
\* may return, over the moves random.choice may pick, the orders
\* random.shuffle may give and the readings of time.time()
calc_best_move(agent, b, prev, player, tr) ==
    CASE agent = "RandomAgent" -> Random_calc_best_move(b, prev, player, tr)
      [] agent = "Kyawan" -> Kyawan_calc_best_move(b, prev, player, tr)
      [] agent = "KyawanV2" -> KyawanV2_calc_best_move(b, prev, player, tr)
      [] agent = "InoueAgentKAI" -> KAI_calc_best_move(b, prev, player, tr)
      [] agent = "TheVoid" -> {TheVoid_calc_best_move(b, prev, player, tr)}
      [] agent = "InoueAgent" -> Inoue_returns(b, prev, player, tr)

-----------------------------------------------------------------------------
(* ostle/app/engine.py: AsyncEngine *)

TIME_LIMIT_MS == 5000

\* dt_ms values passed to update(): a tick of the caller's clock that leaves
\* a part of a full budget, and one that takes all of it
DtChoices == {2000, 5000}

\* number of moves HumanAgent._queue holds at most in a run of the model
MaxSubmits == 1

\* number of reset() calls explored
MaxResets == 1

\* number of worker threads an engine starts in one run of the model, and
\* the number when one of its agents is a HumanAgent
MaxThreads == 3

MaxHumanThreads == 2

\* Values an Agent may hand back that are not in get_legal_moves(b, player):
\* None, and a move of a piece of the opponent.
NotLegalSamples(b, player) ==
    LET theirs == SelectSeq(get_legal_moves(b, opponent(player)),
                            LAMBDA m : b[xy_to_index(m[1], m[2])] = opponent(player))
    IN  {None} \cup (IF theirs = <<>> THEN {} ELSE {theirs[1]})

\* what agent.calc_best_move(board, prev_board, player, time_remaining) may
\* return to _ai_worker; the engine takes any Agent: a legal move, or one of
\* the values of NotLegalSamples
AgentReturns(b, player) ==
    LET moves == get_legal_moves(b, player)
    IN  {moves[k] : k \in 1..Len(moves)} \cup NotLegalSamples(b, player)

\* applied_move(board, move) raises: move.x on None is an AttributeError
applied_move_raises(move) == move = None

RemoveAt(s, i) == [j \in 1..(Len(s) - 1) |-> IF j < i THEN s[j] ELSE s[j + 1]]

\* The agents of an engine: two agents the engine knows nothing about
\* (AsyncEngine under OstleWindow), or a HumanAgent and such an agent
\* (HumanAsyncEngine under HumanBattleWindow)
EngineAgents ==
    {[p \in Players |-> "Agent"]}
        \cup {[p \in Players |-> IF p = human_player THEN "Human" ELSE "Agent"] :
                  human_player \in Players}

\* no player of the match is the HumanAgent: the window is an OstleWindow
NoHuman == \A p \in Players : player_agents[p] # "Human"

\* the number of threads the engine of the run may start
ThreadBound == IF NoHuman THEN MaxThreads ELSE MaxHumanThreads

\* The budgets after the write of HumanBattleWindow.run:
\* if self.engine.turn == self.human_player:
\*     self.engine.time_remaining[self.human_player] = 1_000000.0
refilled ==
    IF player_agents[turn] = "Human"
    THEN [time_remaining EXCEPT ![turn] = 1000000]
    ELSE time_remaining

\* The loop body of HumanBattleWindow.run is the write above, then
\* engine.update(dt_ms), then the events.  frame = "write": the write is
\* what the loop does next to the engine; frame = "update": update() is.
\* The loop body of OstleWindow.run is the events, then engine.update(dt_ms):
\* frame = "update" throughout.
AfterUpdate == IF NoHuman THEN "update" ELSE "write"

\* the run loop stands where it handles events: in HumanBattleWindow.run
\* after the update() of a frame, the first frame's included
EventsHandled == NoHuman \/ (frame = "write" /\ started > 0)

\* AsyncEngine.__init__ -> reset()
Init ==
    /\ board = create_initial_board
    /\ turn \in Players
    /\ time_remaining = [p \in Players |-> TIME_LIMIT_MS]
    /\ history = <<>>
    /\ state = "IDLE"
    /\ winner = None
    /\ reason = ""
    /\ move_queue = <<>>
    /\ workers = <<>>
    /\ prev_board = None
    /\ last_move = None
    /\ plies = 0
    /\ resets = 0
    /\ started = 0
    /\ player_agents \in EngineAgents
    /\ heap = <<>>
    /\ call = None
    /\ human_queue = <<>>
    /\ frame = AfterUpdate

\* _handle_keydown(K_SPACE) -> AsyncEngine.reset(): a new game and a new,
\* empty queue object; threads already started keep running and put into
\* self.move_queue when done
Reset ==
    /\ EventsHandled
    /\ resets < MaxResets
    /\ resets' = resets + 1
    /\ board' = create_initial_board
    /\ turn' \in Players
    /\ time_remaining' = [p \in Players |-> TIME_LIMIT_MS]
    /\ history' = <<>>
    /\ state' = "IDLE"
    /\ winner' = None
    /\ move_queue' = <<>>
    /\ plies' = 0
    /\ UNCHANGED <<reason, workers, prev_board, last_move, started, player_agents,
                   heap, call, human_queue, frame>>

\* AsyncEngine.on_finish(winner, reason)
on_finish(w, r) ==
    /\ state' = "FINISHED"
    /\ winner' = w
    /\ reason' = r

\* case EngineState.IDLE of update(): _run_ai_thread() starts a worker on
\* the current board for the player to move; the worker is at its call of
\* calc_best_move
UpdateIdle ==
    /\ started' = started + 1
    /\ state' = "THINKING"
    /\ workers' = Append(workers,
            [player |-> turn,
             board |-> board,
             prev_board |-> IF history # <<>> THEN history[Len(history)][1] ELSE None,
             time_remaining |-> time_remaining[turn],
             pc |-> "calc",
             best_move |-> None])
    /\ UNCHANGED <<board, turn, winner, reason, history, prev_board, last_move,
                   plies, time_remaining, move_queue, resets, player_agents, heap,
                   call, human_queue>>

\* the THINKING case with a budget that is filled up again when it runs out
UpdateThinking_Replenish(dt_ms) ==
    LET left == time_remaining[turn] - dt_ms
    IN  /\ time_remaining' = [time_remaining EXCEPT
                                 ![turn] = IF left <= 0 THEN TIME_LIMIT_MS ELSE left]
        /\ IF move_queue = <<>>
           THEN UNCHANGED <<board, turn, state, winner, reason, history,
                            move_queue, plies>>
           ELSE LET move == Head(move_queue)
                IN  /\ move_queue' = Tail(move_queue)
                    /\ history' = Append(history, <<board, move>>)
                    /\ IF applied_move_raises(move)
                       THEN /\ on_finish(opponent(turn), "illegal_move")
                            /\ UNCHANGED <<board, turn, plies>>
                       ELSE /\ board' = applied_move(board, move)
                            /\ plies' = plies + 1
                            /\ IF is_winner(applied_move(board, move), turn)
                               THEN /\ on_finish(turn, "win_condition")
                                    /\ UNCHANGED turn
                               ELSE /\ state' = "IDLE"
                                    /\ turn' = opponent(turn)
                                    /\ UNCHANGED <<winner, reason>>
        /\ UNCHANGED <<workers, resets, started, prev_board, last_move, player_agents,
                       heap, call, human_queue>>

\* case EngineState.THINKING of update()
UpdateThinking(dt_ms) ==
    LET left == time_remaining[turn] - dt_ms
    IN  /\ time_remaining' = [time_remaining EXCEPT ![turn] = left]
        /\ IF left <= 0
           THEN /\ on_finish(opponent(turn), "timeout")
                /\ UNCHANGED <<board, turn, history, move_queue, plies>>
           ELSE IF move_queue = <<>>
           THEN UNCHANGED <<board, turn, state, winner, reason, history,
                            move_queue, plies>>
           ELSE LET move == Head(move_queue)
                IN  /\ move_queue' = Tail(move_queue)
                    /\ history' = Append(history, <<board, move>>)
                    /\ IF applied_move_raises(move)
                       THEN /\ on_finish(opponent(turn), "illegal_move")
                            /\ UNCHANGED <<board, turn, plies>>
                       ELSE /\ board' = applied_move(board, move)
                            /\ plies' = plies + 1
                            /\ IF is_winner(applied_move(board, move), turn)
                               THEN /\ on_finish(turn, "win_condition")
                                    /\ UNCHANGED turn
                               ELSE /\ state' = "IDLE"
                                    /\ turn' = opponent(turn)
                                    /\ UNCHANGED <<winner, reason>>
        /\ UNCHANGED <<workers, resets, started, prev_board, last_move, player_agents,
                       heap, call, human_queue>>

\* case EngineState.FINISHED of update(): pass
UpdateFinished ==
    UNCHANGED <<board, turn, state, winner, reason, history, prev_board, last_move,
                plies, time_remaining, move_queue, workers, resets, started,
                player_agents, heap, call, human_queue>>

\* an update() that runs the THINKING case when FINISHED
UpdateWith_FinishedThinks(dt_ms) ==
    CASE state = "IDLE" -> UpdateIdle
      [] state = "THINKING" -> UpdateThinking(dt_ms)
      [] state = "FINISHED" -> UpdateThinking(dt_ms)

\* AsyncEngine.update(dt_ms)
UpdateWith(dt_ms) ==
    CASE state = "IDLE" -> UpdateIdle
      [] state = "THINKING" -> UpdateThinking(dt_ms)
      [] state = "FINISHED" -> UpdateFinished

\* the call self.engine.update(dt_ms) of the window's run loop, dt_ms being
\* the tick of its clock
UpdateCall(dt_ms) ==
    /\ frame = "update"
    /\ frame' = AfterUpdate
    /\ UpdateWith(dt_ms)

\* such a call with one of the frame times, in a run of the model: the
\* engine of a run starts ThreadBound threads at most
Update ==
    \E dt_ms \in DtChoices :
        /\ state = "IDLE" => started < ThreadBound
        /\ UpdateCall(dt_ms)

\* HumanBattleWindow.run before update(): the budget of the human is filled
\* up when it is the human's turn, whatever the state of the engine
HumanRefill ==
    /\ ~NoHuman
    /\ frame = "write"
    /\ frame' = "update"
    /\ time_remaining' = refilled
    /\ UNCHANGED <<board, turn, state, winner, reason, history, prev_board,
                   last_move, plies, move_queue, workers, resets, started,
                   player_agents, heap, call, human_queue>>

\* _ai_worker: best_move = agent.calc_best_move(board, prev_board, player,
\* time_remaining) returns.  HumanAgent.calc_best_move is self._queue.get(),
\* which blocks while the queue is empty and takes its oldest move
\* otherwise, whatever the board the worker was started on; when several
\* workers wait on it any of them may be the one that takes the move.
WorkerReturns ==
    \E i \in 1..Len(workers) :
        /\ workers[i].pc = "calc"
        /\ IF player_agents[workers[i].player] = "Human"
           THEN /\ human_queue # <<>>
                /\ workers' = [workers EXCEPT ![i].pc = "put",
                                              ![i].best_move = Head(human_queue)]
                /\ human_queue' = Tail(human_queue)
           ELSE /\ \E best_move \in AgentReturns(workers[i].board, workers[i].player) :
                      workers' = [workers EXCEPT ![i].pc = "put",
                                                 ![i].best_move = best_move]
                /\ UNCHANGED human_queue
        /\ UNCHANGED <<board, turn, state, winner, reason, history, prev_board,
                       last_move, plies, time_remaining, move_queue, resets,
                       started, player_agents, heap, call, frame>>

\* _ai_worker: self.move_queue.put(best_move), into the queue
\* self.move_queue names at that moment; the thread ends
WorkerPuts ==
    \E i \in 1..Len(workers) :
        /\ workers[i].pc = "put"
        /\ move_queue' = Append(move_queue, workers[i].best_move)
        /\ workers' = RemoveAt(workers, i)
        /\ UNCHANGED <<board, turn, state, winner, reason, history, prev_board,
                       last_move, plies, time_remaining, resets, started,
                       player_agents, heap, call, human_queue, frame>>

\* _ai_worker: calc_best_move raises; the thread ends and nothing is put
WorkerRaises ==
    \E i \in 1..Len(workers) :
        /\ workers[i].pc = "calc"
        /\ player_agents[workers[i].player] # "Human"
        /\ workers' = RemoveAt(workers, i)
        /\ UNCHANGED <<board, turn, state, winner, reason, history, prev_board,
                       last_move, plies, time_remaining, move_queue, resets,
                       started, player_agents, heap, call, human_queue, frame>>

\* HumanBattleWindow._handle_click on the arrow of a selected piece or Hole:
\* when the engine is not FINISHED and it is the human's turn, a move of
\* get_legal_moves(engine.board, human_player) is submitted to the
\* HumanAgent.  The clicks that select or unselect write human_input only,
\* which nothing of the engine reads.
HandleClick ==
    /\ EventsHandled
    /\ state # "FINISHED"
    /\ player_agents[turn] = "Human"
    /\ Len(human_queue) < MaxSubmits
    /\ \E k \in 1..Len(get_legal_moves(board, turn)) :
          human_queue' = Append(human_queue, get_legal_moves(board, turn)[k])
    /\ UNCHANGED <<board, turn, state, winner, reason, history, prev_board,
                   last_move, plies, time_remaining, move_queue, workers, resets,
                   started, player_agents, heap, call, frame>>

Next ==
    Update \/ HumanRefill \/ WorkerReturns \/ WorkerPuts \/ WorkerRaises
        \/ Reset \/ HandleClick

Spec == Init /\ [][Next]_vars

\* A match that is never reset and in which the human, when there is one,
\* submits no move.  dt_ms values passed to update() in it: a tick that
\* leaves a part of a full budget too small for a second tick, and one that
\* takes all of it
LiveDts == {3000, 5000}

\* the call self.engine.update(dt_ms) with one of these; the engine starts
\* a thread whenever it is IDLE
UpdateLive == \E dt_ms \in LiveDts : UpdateCall(dt_ms)

NextLive ==
    UpdateLive \/ HumanRefill \/ WorkerReturns \/ WorkerPuts \/ WorkerRaises

\* the run loop goes on from frame to frame: its write and its call of
\* update() are not put off for ever; nothing is asked of the agents or of
\* the workers
SpecLive == Init /\ [][NextLive]_vars /\ WF_vars(UpdateLive) /\ WF_vars(HumanRefill)

-----------------------------------------------------------------------------
(* ostle/app/benchmark.py: _play_one_game *)

\* elapsed_time values, in ms: what the clock shows a calc_best_move call
\* to have taken.  No time at all, one millisecond, the whole of the small
\* time limit, more than it, and more than benchmark()'s default
ElapsedChoices == {0, 1, 700, 800, 5001}

\* time_limit_ms values: benchmark()'s default and one a single call exhausts
TimeLimits == {700, 5 * 1000}

\* number of loop iterations of _play_one_game explored
MaxBenchPlies == 2

\* the agents of the games played here: the two whose calls search at most
\* 3 plies deep; the calls of the others are those of SpecCall
BenchAgents == {"RandomAgent", "TheVoid"}

\* _play_one_game(agent1, agent2, first_player, time_limit_ms) up to the
\* while-loop
InitBench ==
    /\ player_agents \in [Players -> BenchAgents]
    /\ heap = <<>>
    /\ call = None
    /\ human_queue = <<>>
    /\ frame = "update"
    /\ turn \in Players
    /\ \E time_limit_ms \in TimeLimits :
          time_remaining = [p \in Players |-> time_limit_ms]
    /\ board = create_initial_board
    /\ prev_board = None
    /\ state = "running"
    /\ winner = None
    /\ reason = ""
    /\ history = <<>>
    /\ last_move = None
    /\ plies = 0
    /\ move_queue = <<>>
    /\ workers = <<>>
    /\ resets = 0
    /\ started = 0

\* return w
bench_return(w) ==
    /\ state' = "returned"
    /\ winner' = w
    /\ UNCHANGED turn

\* one iteration of the while-loop; last_move records the value
\* calc_best_move returned in it
BenchPly ==
    /\ state = "running"
    /\ plies < MaxBenchPlies
    /\ \E move \in calc_best_move(player_agents[turn], board, prev_board, turn,
                                  time_remaining[turn]) :
       \E elapsed_time \in ElapsedChoices :
          /\ last_move' = move
          /\ IF move = Raised
             THEN /\ state' = "raised"
                  /\ UNCHANGED <<board, prev_board, turn, winner, time_remaining, plies>>
             ELSE
               /\ time_remaining' =
                    [time_remaining EXCEPT ![turn] = time_remaining[turn] - elapsed_time]
               /\ IF time_remaining[turn] - elapsed_time < 0
                  THEN /\ bench_return(opponent(turn))
                       /\ UNCHANGED <<board, prev_board, plies>>
                  ELSE
                    /\ prev_board' = board
                    /\ IF applied_move_raises(move)
                       THEN /\ state' = "raised"
                            /\ UNCHANGED <<board, turn, winner, plies>>
                       ELSE
                         /\ board' = applied_move(board, move)
                         /\ plies' = plies + 1
                         /\ IF applied_move(board, move) = board
                            THEN bench_return(EMPTY)
                            ELSE IF is_winner(applied_move(board, move), turn)
                            THEN bench_return(turn)
                            ELSE IF is_winner(applied_move(board, move), opponent(turn))
                            THEN bench_return(opponent(turn))
                            ELSE /\ turn' = opponent(turn)
                                 /\ UNCHANGED <<state, winner>>
    /\ UNCHANGED <<reason, history, move_queue, workers, resets, started, player_agents, heap, call, human_queue, frame>>

NextBench == BenchPly

SpecBench == InitBench /\ [][NextBench]_vars

-----------------------------------------------------------------------------
(* One call agent.calc_best_move(board, prev_board, player, time_remaining) *)
(* on arguments drawn from a family of boards.                              *)

\* boards on which one player has no legal move: that player has no piece
\* and the Hole stands in the corner (0,0) between two pieces of the other
StuckBoards ==
    {[i \in 0..(BOARD_SIZE - 1) |->
        IF i = xy_to_index(0, 0) THEN HOLE
        ELSE IF i \in {xy_to_index(1, 0), xy_to_index(0, 1), xy_to_index(3, 3),
                       xy_to_index(4, 2)} THEN q
        ELSE EMPTY] : q \in Players}

\* the boards a move of the Hole and a move of a piece make of the initial
\* board
OpeningMoves == {<<2, 2, 1, 0>>, <<0, 0, 0, 1>>}

OpeningBoards == {applied_move(create_initial_board, m) : m \in OpeningMoves}

\* boards late in a game: the Hole in the centre, five pieces of p, and four
\* or five pieces of q of which the ones at (4, 0) and (0, 2) stand between
\* pieces of p and the edge
EndgameBoards ==
    {[i \in 0..(BOARD_SIZE - 1) |->
        IF i = xy_to_index(2, 2) THEN HOLE
        ELSE IF i \in {xy_to_index(1, 2), xy_to_index(0, 4), xy_to_index(2, 0),
                       xy_to_index(3, 0), xy_to_index(3, 3)} THEN opponent(q)
        ELSE IF i \in {xy_to_index(0, 2), xy_to_index(4, 4), xy_to_index(4, 0),
                       xy_to_index(4, 1)} THEN q
        ELSE IF i = xy_to_index(4, 3) /\ five THEN q
        ELSE EMPTY] : q \in Players, five \in BOOLEAN}

\* <<board, prev_board>> pairs an agent is called on
CallInputs ==
    {<<b, None>> : b \in StuckBoards \cup EndgameBoards \cup {create_initial_board}}
        \cup {<<b, create_initial_board>> : b \in OpeningBoards}

\* time_remaining values passed to the agent, in ms: one of each range the
\* agent's code tells apart (KyawanAgentV2, InoueAgentKAI: below 1000 and
\* from 3000 on; TheVoidAgent: up to 500 and above; InoueAgent: up to its
\* time_buffer and above)
CallBudgets(agent) ==
    IF agent \in {"TheVoid", "InoueAgent"} THEN {0, 700, 5000} ELSE {700, 5000}

\* the board after the Hole's first move, the endgame board on which
\* Player1 wins at once
HoleOpening == applied_move(create_initial_board, <<2, 2, 1, 0>>)

WinBoard ==
    CHOOSE e \in EndgameBoards :
        e[xy_to_index(0, 2)] = Player2 /\ e[xy_to_index(4, 3)] = EMPTY

\* the depth of the search the agent runs with the budget tr
CallDepth(agent, tr) ==
    CASE agent = "RandomAgent" -> 0
      [] agent = "Kyawan" -> 5
      [] agent \in {"KyawanV2", "InoueAgentKAI"} -> DepthForTime(tr)
      [] agent = "TheVoid" -> IF tr > 500 THEN 3 ELSE 2
      [] agent = "InoueAgent" -> MAX_DEPTH

\* the calls <<agent, board, prev_board, player, time_remaining>> with a
\* search deeper than 3 plies on a board with pieces of both players
DeepCalls ==
    {<<"Kyawan", HoleOpening, create_initial_board, Player2, 5000>>,
     <<"Kyawan", WinBoard, None, Player1, 5000>>,
     <<"KyawanV2", WinBoard, None, Player1, 5000>>,
     <<"InoueAgent", create_initial_board, None, Player1, 0>>,
     <<"InoueAgent", create_initial_board, None, Player1, 700>>,
     <<"InoueAgent", HoleOpening, create_initial_board, Player2, 700>>,
     <<"InoueAgent", WinBoard, None, Player1, 700>>}

\* the calls made: every agent on every input with each of its budgets when
\* the search is at most 3 plies deep or the board is one of StuckBoards,
\* and the calls of DeepCalls
CallCases ==
    {c \in Agents \X {inp[1] : inp \in CallInputs} \X {None, create_initial_board}
            \X Players \X {0, 700, 5000} :
        /\ <<c[2], c[3]>> \in CallInputs
        /\ c[5] \in CallBudgets(c[1])
        /\ \/ CallDepth(c[1], c[5]) <= 3
           \/ c[2] \in StuckBoards
           \/ c \in DeepCalls}

InitCall ==
    /\ \E c \in CallCases :
          /\ player_agents = [p \in Players |-> c[1]]
          /\ board = c[2]
          /\ prev_board = c[3]
          /\ turn = c[4]
          /\ time_remaining = [p \in Players |-> c[5]]
    /\ state = "calling"
    /\ winner = None
    /\ reason = ""
    /\ history = <<>>
    /\ last_move = None
    /\ plies = 0
    /\ move_queue = <<>>
    /\ workers = <<>>
    /\ resets = 0
    /\ started = 0
    /\ heap = <<>>
    /\ call = None
    /\ human_queue = <<>>
    /\ frame = "update"

\* the call returns (last_move is the value returned) or raises
\* (last_move = Raised)
AgentCall ==
    /\ state = "calling"
    /\ last_move' \in calc_best_move(player_agents[turn], board, prev_board,
                                     turn, time_remaining[turn])
    /\ state' = "called"
    /\ UNCHANGED <<board, turn, winner, reason, history, prev_board, plies>>
    /\ UNCHANGED driver_vars

NextCall == AgentCall

SpecCall == InitCall /\ [][NextCall]_vars

-----------------------------------------------------------------------------
(* Vocabulary of the claims about applied_move: the run of pieces a move   *)
(* pushes, read on the board before the move.                              *)

\* the cell i steps ahead of the move's origin
AheadIn(m, i) == is_in_board(m[1] + i * m[3], m[2] + i * m[4])
Ahead(m, i) == xy_to_index(m[1] + i * m[3], m[2] + i * m[4])

IsPieceAt(b, m, i) == AheadIn(m, i) /\ b[Ahead(m, i)] \in Players

\* length of the contiguous run of pieces that starts at the origin
RunLen(b, m) ==
    CHOOSE k \in 1..BOARD_WIDTH :
        /\ \A i \in 0..(k - 1) : IsPieceAt(b, m, i)
        /\ ~IsPieceAt(b, m, k)

RunCells(m, k) == {Ahead(m, i) : i \in 0..(k - 1)}

PieceMoveApplied ==
    /\ state = "applied"
    /\ prev_board[Ahead(last_move, 0)] \in Players

RunThenEmpty ==
    /\ PieceMoveApplied
    /\ AheadIn(last_move, RunLen(prev_board, last_move))
    /\ prev_board[Ahead(last_move, RunLen(prev_board, last_move))] = EMPTY

RunThenHole ==
    /\ PieceMoveApplied
    /\ AheadIn(last_move, RunLen(prev_board, last_move))
    /\ prev_board[Ahead(last_move, RunLen(prev_board, last_move))] = HOLE

RunThenEdge ==
    /\ PieceMoveApplied
    /\ ~AheadIn(last_move, RunLen(prev_board, last_move))

\* the run's pieces other than the last stand one cell further, the origin
\* is Empty
ShiftedUpTo(n) ==
    /\ board[Ahead(last_move, 0)] = EMPTY
    /\ \A i \in 1..n : board[Ahead(last_move, i)] = prev_board[Ahead(last_move, i - 1)]

UnchangedOutside(cells) ==
    \A j \in 0..(BOARD_SIZE - 1) : j \notin cells => board[j] = prev_board[j]

\* C1: a legal piece move whose run of k pieces is followed by an in-bounds
\* Empty cell leaves the origin Empty, puts every piece of the run one cell
\* further in the same order, changes no other cell, and keeps both piece
\* counts.
C1_PushIntoEmpty ==
    (RunThenEmpty /\ Count(prev_board, HOLE) = 1) =>
        LET k == RunLen(prev_board, last_move)
        IN  /\ ShiftedUpTo(k)
            /\ UnchangedOutside(RunCells(last_move, k + 1))
            /\ Count(board, Player1) = Count(prev_board, Player1)
            /\ Count(board, Player2) = Count(prev_board, Player2)

\* a chain of three pieces of both colours was pushed into an Empty cell
C1_Witness ==
    /\ RunThenEmpty
    /\ Count(prev_board, HOLE) = 1
    /\ RunLen(prev_board, last_move) = 3
    /\ prev_board[Ahead(last_move, 1)] # prev_board[Ahead(last_move, 0)]
    /\ board[Ahead(last_move, 3)] = prev_board[Ahead(last_move, 2)]

\* C2: a legal piece move whose run is followed by the Hole leaves the Hole
\* where it was, removes the last piece of the run, shifts the others one
\* step, leaves the origin Empty and changes no other cell.
C2_PushIntoHole ==
    RunThenHole =>
        LET k == RunLen(prev_board, last_move)
            last == prev_board[Ahead(last_move, k - 1)]
        IN  /\ board[Ahead(last_move, k)] = HOLE
            /\ Count(board, HOLE) = Count(prev_board, HOLE)
            /\ ShiftedUpTo(k - 1)
            /\ UnchangedOutside(RunCells(last_move, k))
            /\ Count(board, last) = Count(prev_board, last) - 1
            /\ Count(board, opponent(last)) = Count(prev_board, opponent(last))

\* a piece pushed an opponent piece into the Hole
C2_Witness ==
    /\ RunThenHole
    /\ RunLen(prev_board, last_move) = 2
    /\ prev_board[Ahead(last_move, 1)] = opponent(prev_board[Ahead(last_move, 0)])
    /\ Count(board, prev_board[Ahead(last_move, 1)])
         = Count(prev_board, prev_board[Ahead(last_move, 1)]) - 1

\* C3: a legal piece move whose run reaches the board edge removes the last
\* piece of the run (that colour's count drops by exactly one, the other
\* colour's count is unchanged), shifts the others one step toward the
\* edge, leaves the origin Empty and changes no other cell.
C3_PushOffEdge ==
    RunThenEdge =>
        LET k == RunLen(prev_board, last_move)
            last == prev_board[Ahead(last_move, k - 1)]
        IN  /\ ShiftedUpTo(k - 1)
            /\ UnchangedOutside(RunCells(last_move, k))
            /\ Count(board, last) = Count(prev_board, last) - 1
            /\ Count(board, opponent(last)) = Count(prev_board, opponent(last))

\* a piece pushed an opponent piece over the edge
C3_Witness ==
    /\ RunThenEdge
    /\ RunLen(prev_board, last_move) = 2
    /\ prev_board[Ahead(last_move, 1)] = opponent(prev_board[Ahead(last_move, 0)])
    /\ board[Ahead(last_move, 1)] = prev_board[Ahead(last_move, 0)]
    /\ Count(board, prev_board[Ahead(last_move, 1)])
         = Count(prev_board, prev_board[Ahead(last_move, 1)]) - 1

\* C4: every board reached from the initial board by legal moves of either
\* player has 25 cells and exactly one Hole.
C4_OneHole ==
    /\ DOMAIN board = 0..24
    /\ \A i \in 0..24 : board[i] \in Cell
    /\ Cardinality({i \in 0..24 : board[i] = HOLE}) = 1

\* the Hole has left its initial cell and a piece has been pushed into it
C4_Witness ==
    /\ plies >= 2
    /\ board[xy_to_index(HOLE_X, HOLE_Y)] # HOLE
    /\ Count(board, HOLE) = 1
    /\ Count(board, Player1) + Count(board, Player2) < 10
    /\ prev_board[Ahead(last_move, 1)] = HOLE

\* C5: a legal move never increases the number of pieces on the board.
C5_PiecesNeverIncrease ==
    state = "applied" =>
        Count(board, Player1) + Count(board, Player2)
            <= Count(prev_board, Player1) + Count(prev_board, Player2)

\* a legal move removed a piece from a board holding pieces of both colours
C5_Witness ==
    /\ state = "applied"
    /\ Count(prev_board, Player1) > 0
    /\ Count(prev_board, Player2) > 0
    /\ Count(board, Player1) + Count(board, Player2)
         < Count(prev_board, Player1) + Count(prev_board, Player2)

\* C9: is_winner(board, player) is true exactly when at most 3 cells hold
\* the opponent's piece; it is false for both players on the initial board.
C9_WinnerIffAtMostThree ==
    /\ \A p \in Players :
          is_winner(board, p)
            <=> Cardinality({i \in 0..24 : board[i] = opponent(p)}) <= 3
    /\ board = create_initial_board =>
          ~is_winner(board, Player1) /\ ~is_winner(board, Player2)

\* a move took a colour from 4 pieces to 3: the other player did not
\* satisfy the win condition before it and does after it
C9_Witness ==
    /\ state = "applied"
    /\ \E p \in Players :
          /\ Count(prev_board, opponent(p)) = 4
          /\ ~is_winner(prev_board, p)
          /\ Count(board, opponent(p)) = 3
          /\ is_winner(board, p)

FourDirections == {<<-1, 0>>, <<1, 0>>, <<0, -1>>, <<0, 1>>}

\* C10: for a cell holding the player's piece, get_legal_moves contains
\* Move(x, y, dx, dy) exactly when (dx, dy) is one of the four axis
\* directions and the destination is inside the grid, whatever it holds.
C10_PieceMoves ==
    \A p \in Players :
        LET moves == get_legal_moves(board, p)
        IN  \A x, y \in 0..4 :
                board[xy_to_index(x, y)] = p =>
                    \A dx, dy \in -2..2 :
                        InSeq(moves, Move(x, y, dx, dy))
                          <=> /\ <<dx, dy>> \in FourDirections
                              /\ is_in_board(x + dx, y + dy)

\* one piece is offered moves onto a piece of its own colour, onto an
\* opponent piece and onto the Hole, and none over the edge
C10_Witness ==
    LET moves == get_legal_moves(board, turn)
    IN  \E i, j, k \in 1..Len(moves) :
            /\ moves[i][1] = moves[j][1] /\ moves[i][2] = moves[j][2]
            /\ moves[i][1] = moves[k][1] /\ moves[i][2] = moves[k][2]
            /\ board[Ahead(moves[i], 0)] = turn
            /\ board[Ahead(moves[i], 1)] = turn
            /\ board[Ahead(moves[j], 1)] = opponent(turn)
            /\ board[Ahead(moves[k], 1)] = HOLE
            /\ moves[i][2] = 4
            /\ ~InSeq(moves, Move(moves[i][1], moves[i][2], 0, 1))

-----------------------------------------------------------------------------
(* Claims about get_legal_moves, the Hole's moves and the initial board *)

\* the moves of a sequence whose origin is the cell (x, y)
MovesFrom(moves, x, y) == SelectSeq(moves, LAMBDA m : m[1] = x /\ m[2] = y)

\* C11: for a cell holding the Hole, get_legal_moves contains
\* Move(x, y, dx, dy) exactly when (dx, dy) is an axis direction and the
\* destination is inside the grid and Empty; the Hole's moves are the same
\* sequence for both players.
C11_HoleMoves ==
    LET moves1 == get_legal_moves(board, Player1)
        moves2 == get_legal_moves(board, Player2)
    IN  \A x, y \in 0..4 :
            board[xy_to_index(x, y)] = HOLE =>
                /\ \A dx, dy \in -2..2 :
                      /\ InSeq(moves1, Move(x, y, dx, dy))
                            <=> /\ <<dx, dy>> \in FourDirections
                                /\ is_in_board(x + dx, y + dy)
                                /\ board[xy_to_index(x + dx, y + dy)] = EMPTY
                      /\ InSeq(moves2, Move(x, y, dx, dy))
                            <=> InSeq(moves1, Move(x, y, dx, dy))
                /\ MovesFrom(moves1, x, y) = MovesFrom(moves2, x, y)

\* the Hole stands at the grid's edge between a Player1 piece and a Player2
\* piece with an Empty cell beside it: it is offered the Empty cell only
C11_Witness ==
    \E x, y \in 0..4 :
        /\ board[xy_to_index(x, y)] = HOLE
        /\ \E d1, d2, d3, d4 \in FourDirections :
              /\ ~is_in_board(x + d1[1], y + d1[2])
              /\ is_in_board(x + d2[1], y + d2[2])
              /\ board[xy_to_index(x + d2[1], y + d2[2])] = Player1
              /\ is_in_board(x + d3[1], y + d3[2])
              /\ board[xy_to_index(x + d3[1], y + d3[2])] = Player2
              /\ is_in_board(x + d4[1], y + d4[2])
              /\ board[xy_to_index(x + d4[1], y + d4[2])] = EMPTY
              /\ MovesFrom(get_legal_moves(board, turn), x, y)
                   = << Move(x, y, d4[1], d4[2]) >>

\* position of a direction in the order (-1,0), (1,0), (0,-1), (0,1)
DirRank(dx, dy) ==
    CASE dx = -1 /\ dy = 0 -> 0
      [] dx = 1 /\ dy = 0 -> 1
      [] dx = 0 /\ dy = -1 -> 2
      [] dx = 0 /\ dy = 1 -> 3

\* rank of a move in the order: origin row-major (y, then x), then direction
MoveRank(m) == ((m[2] * 5 + m[1]) * 4) + DirRank(m[3], m[4])

\* C12: no move of get_legal_moves(board, player) starts on an Empty cell
\* or on an opponent piece, and the sequence is strictly increasing in the
\* order (origin row-major, then direction (-1,0),(1,0),(0,-1),(0,1)), so
\* it has no duplicates and is fixed by its inputs.
C12_MovesOrdered ==
    \A p \in Players :
        LET moves == get_legal_moves(board, p)
        IN  /\ \A i \in 1..Len(moves) :
                  /\ <<moves[i][3], moves[i][4]>> \in FourDirections
                  /\ board[xy_to_index(moves[i][1], moves[i][2])] \in {p, HOLE}
            /\ \A i \in 1..(Len(moves) - 1) :
                  MoveRank(moves[i]) < MoveRank(moves[i + 1])

\* the board holds Empty cells, pieces of both colours and the Hole, and
\* the player's moves start from cells in two rows and two columns
C12_Witness ==
    LET moves == get_legal_moves(board, turn)
    IN  /\ Count(board, opponent(turn)) > 0
        /\ Count(board, EMPTY) > 0
        /\ \E i, j, k \in 1..Len(moves) :
              /\ i < j /\ j < k
              /\ moves[i][2] < moves[j][2]
              /\ moves[j][1] > moves[k][1]
              /\ moves[j][2] < moves[k][2]
              /\ board[xy_to_index(moves[j][1], moves[j][2])] = HOLE

\* a legal Hole move has been applied
HoleMoveApplied ==
    /\ state = "applied"
    /\ prev_board[Ahead(last_move, 0)] = HOLE

\* C13: a legal Hole move leaves Empty at its origin and the Hole at its
\* destination, every other cell as it was, and so every count of pieces.
C13_HoleSwap ==
    HoleMoveApplied =>
        /\ board[Ahead(last_move, 0)] = EMPTY
        /\ board[Ahead(last_move, 1)] = HOLE
        /\ UnchangedOutside({Ahead(last_move, 0), Ahead(last_move, 1)})
        /\ Count(board, Player1) = Count(prev_board, Player1)
        /\ Count(board, Player2) = Count(prev_board, Player2)

\* the Hole moved off the diagonal on a board that holds pieces of both
\* colours
C13_Witness ==
    /\ HoleMoveApplied
    /\ last_move[1] + last_move[3] # last_move[2] + last_move[4]
    /\ board[Ahead(last_move, 1)] = HOLE
    /\ prev_board[Ahead(last_move, 1)] = EMPTY
    /\ Count(board, Player1) > 0
    /\ Count(board, Player2) > 0

\* C14: the board a match starts from has 25 cells: Player1 in the 5 cells
\* of row y=0, Player2 in the 5 cells of row y=4, the Hole at (2,2) and
\* nowhere else, Empty in the remaining 14 cells.
C14_InitialLayout ==
    (state = "play" /\ plies = 0) =>
        /\ DOMAIN board = 0..24
        /\ \A x \in 0..4 : board[0 * 5 + x] = Player1
        /\ \A x \in 0..4 : board[4 * 5 + x] = Player2
        /\ {i \in 0..24 : board[i] = HOLE} = {2 * 5 + 2}
        /\ Cardinality({i \in 0..24 : board[i] = EMPTY}) = 14
        /\ Cardinality({i \in 0..24 : board[i] = Player1}) = 5
        /\ Cardinality({i \in 0..24 : board[i] = Player2}) = 5

\* the board create_initial_board() returned, before any move
C14_Witness ==
    /\ state = "play"
    /\ plies = 0
    /\ board = create_initial_board
    /\ board[12] = HOLE
    /\ board[0] = Player1
    /\ board[24] = Player2

\* C15: a call of applied_move leaves every list that existed before it,
\* its argument included, cell for cell as it was, and returns a list that
\* did not exist before the call.
C15_InputNotMutated ==
    [][state = "search" =>
         /\ \A r \in 1..Len(heap) : heap'[r] = heap[r]
         /\ call'.ret \notin 1..Len(heap)
         /\ call'.ret # call'.arg
         /\ heap'[call'.arg] = prev_board']_vars

\* a second call pushed a piece on a board an earlier call returned, and
\* both the root board and that board still hold what they held
C15_Witness ==
    /\ state = "search"
    /\ Len(heap) = 3
    /\ call.arg = 2
    /\ call.ret = 3
    /\ heap[1] = create_initial_board
    /\ heap[2] = prev_board
    /\ heap[3] # heap[2]
    /\ prev_board[Ahead(last_move, 0)] \in Players
    /\ prev_board[Ahead(last_move, 1)] \in Players

-----------------------------------------------------------------------------
(* Claims about the match driver *)

\* update() takes a move from the queue in this step
TakesMove ==
    /\ state = "THINKING"
    /\ move_queue # <<>>
    /\ move_queue' = Tail(move_queue)
    /\ resets' = resets

\* C7: when the move update() takes from the queue is not a member of
\* get_legal_moves(board, turn), the match ends with the opponent of the
\* mover as winner, reason illegal_move, and board and history are left
\* exactly as they were.
C7_IllegalMoveForfeits ==
    [][(TakesMove /\ ~InSeq(get_legal_moves(board, turn), Head(move_queue)))
         => /\ state' = "FINISHED"
            /\ winner' = opponent(turn)
            /\ reason' = "illegal_move"
            /\ board' = board
            /\ history' = history]_vars

\* the player who made the i-th move of history, while the match is running
MoverOf(i) == IF (Len(history) - i) % 2 = 0 THEN opponent(turn) ELSE turn

\* every move of the history was legal for the player who made it
HistoryLegal ==
    \A i \in 1..Len(history) :
        /\ history[i][2] # None
        /\ InSeq(get_legal_moves(history[i][1], MoverOf(i)), history[i][2])

\* C8: the driver never hands the turn to the next player on a board on
\* which either player already satisfies the win condition (stated for
\* matches in which every move was legal).
C8_NoTurnOnWonBoard ==
    (state \in {"IDLE", "THINKING"} /\ HistoryLegal) =>
        ~is_winner(board, Player1) /\ ~is_winner(board, Player2)

-----------------------------------------------------------------------------
(* Claims about the agents' calls *)

\* C16: when get_legal_moves(board, player) is empty, calc_best_move of
\* every agent raises; it returns no value.
C16_NoLegalMovesRaises ==
    (state = "called" /\ get_legal_moves(board, turn) = <<>>) =>
        last_move = Raised

\* C6: on a board with a legal move, with the prev_board the driver passes,
\* the value calc_best_move of an agent returns is a member of
\* get_legal_moves(board, player), never None (and the call does not raise).
C6_AgentsReturnLegal ==
    (state = "called" /\ get_legal_moves(board, turn) # <<>>) =>
        /\ last_move # None
        /\ InSeq(get_legal_moves(board, turn), last_move)

\* C6 witness: a searching agent was called on a board where one of its
\* legal moves recreates the prev_board it is passed, and it returned a
\* legal move.
C6_Witness ==
    /\ state = "called"
    /\ prev_board # None
    /\ player_agents[turn] # "RandomAgent"
    /\ \E k \in 1..Len(get_legal_moves(board, turn)) :
          applied_move(board, get_legal_moves(board, turn)[k]) = prev_board
    /\ InSeq(get_legal_moves(board, turn), last_move)

\* the worker started for the player to move has ended without a move: no
\* worker is running and nothing is in the queue, in a match never reset
AgentSignalled ==
    /\ state = "THINKING"
    /\ resets = 0
    /\ workers = <<>>
    /\ move_queue = <<>>

\* C17: when the agent of the player to move has signalled that it has no
\* move, the next update() ends the match with that player as the loser;
\* the match is not left waiting for the clock.
C17_NoMoveEndsMatch ==
    [][(AgentSignalled /\ time_remaining' # time_remaining /\ resets' = resets
           /\ ~HumanRefill)
         => /\ state' = "FINISHED"
            /\ winner' = opponent(turn)]_vars

\* update() runs its THINKING case in this step
ThinkingTick ==
    /\ state = "THINKING"
    /\ time_remaining' # time_remaining
    /\ resets' = resets
    /\ ~HumanRefill

\* C18: update() ends the match by timeout exactly when the budget of the
\* player to move is negative after dt_ms is subtracted; then the winner is
\* the opponent and board and history stay as they were, in that tick and,
\* the state being final, in every later one.
C18_TimeoutOnlyWhenNegative ==
    [][/\ ThinkingTick =>
            /\ (state' = "FINISHED" /\ reason' = "timeout")
                  <=> time_remaining'[turn] < 0
            /\ time_remaining'[turn] < 0 =>
                  /\ winner' = opponent(turn)
                  /\ board' = board
                  /\ history' = history
       /\ (state = "FINISHED" /\ resets' = resets) =>
            /\ state' = "FINISHED"
            /\ board' = board
            /\ history' = history]_vars

\* the number of readings of a call of InoueAgent.calc_best_move at which
\* the limit is let pass in the runs followed for C19
MaxDeadline == 3

\* the readings of the clock at which the limit of a small budget passes in
\* those runs: the first reading when the limit is 0, one of the readings
\* 0..MaxDeadline otherwise
LimitPasses(tr) == IF tr * 100 <= 2 THEN {0} ELSE 0..MaxDeadline

\* C19: InoueAgent called with a small budget, a budget at or below its
\* time_buffer included, returns a legal move and starts no depth iteration
\* once its time limit has passed.
C19_StopsWhenBudgetExhausted ==
    (/\ state = "calling"
     /\ player_agents[turn] = "InoueAgent"
     /\ get_legal_moves(board, turn) # <<>>
     /\ time_remaining[turn] < 1000) =>
        \A d \in LimitPasses(time_remaining[turn]) :
            /\ InSeq(get_legal_moves(board, turn),
                     Inoue_calc_best_move(board, prev_board, turn, time_remaining[turn], d))
            /\ Inoue_late_iterations(board, turn, time_remaining[turn], d) = 0

\* the board that followed the i-th entry of history
BoardAfter(i) == IF i < Len(history) THEN history[i + 1][1] ELSE board

\* C20: in the engine the length of history equals the number of moves
\* applied to the board, the i-th entry holds the board before the i-th
\* applied move and that move, and the prev_board handed to the agent is
\* None on the first ply and otherwise the board before the most recent
\* applied move.
C20_OnePlyOneEntry ==
    state \in {"IDLE", "THINKING", "FINISHED"} =>
        /\ Len(history) = plies
        /\ \A i \in 1..Len(history) :
              /\ history[i][2] # None
              /\ applied_move(history[i][1], history[i][2]) = BoardAfter(i)
        /\ (resets = 0 /\ state = "THINKING") =>
              \A w \in 1..Len(workers) :
                  /\ workers[w].board = board
                  /\ workers[w].prev_board
                       = IF plies = 0 THEN None ELSE history[Len(history)][1]

\* some legal move of the player to move does not recreate prev_board
HasFreshMove ==
    \E k \in 1..Len(get_legal_moves(board, turn)) :
        applied_move(board, get_legal_moves(board, turn)[k]) # prev_board

\* C21: whenever at least one legal move does not recreate prev_board, the
\* move a search agent returns does not recreate prev_board.
C21_NoRepetition ==
    (/\ state = "called"
     /\ player_agents[turn] # "RandomAgent"
     /\ prev_board # None
     /\ last_move \notin {None, Raised}
     /\ HasFreshMove) =>
        applied_move(board, last_move) # prev_board


\* a worker puts its result into the queue the engine reads
Delivers ==
    Len(move_queue') = Len(move_queue) + 1

\* C22: a result is put into the queue the engine reads only by the one worker
\* in flight, started for the player to move on the current board while the
\* engine is THINKING with an empty queue; so no update() applies a move
\* computed for an earlier game, an earlier board or the other player.
C22_OnlyCurrentWorkerDelivers ==
    [][Delivers =>
        /\ state = "THINKING"
        /\ move_queue = <<>>
        /\ Len(workers) = 1
        /\ workers[1].player = turn
        /\ workers[1].board = board]_vars


SetMax(S) == CHOOSE x \in S : \A y \in S : y <= x

\* the negamax of KyawanAgent / KyawanAgentV2 / InoueAgentKAI without window:
\* every move that does not recreate prev is searched, in no order
RECURSIVE negamax_exhaustive(_, _, _, _, _, _)
negamax_exhaustive(agent, player, b, prev, depth, tr) ==
    IF depth = 0 THEN evaluate(agent, b, player, depth, tr)
    ELSE LET moves == get_legal_moves(b, player)
             scores == {-negamax_exhaustive(agent, opponent(player),
                                            applied_move(b, moves[k]), b, depth - 1, tr) :
                            k \in {j \in 1..Len(moves) :
                                      ~is_same_board(applied_move(b, moves[j]), prev)}}
         IN  IF scores = {} THEN -Inf ELSE SetMax(scores)

\* TheVoidAgent._minimax without window: the largest of -99999 and the
\* negated values of all moves that do not recreate prev
RECURSIVE TheVoid_exhaustive(_, _, _, _)
TheVoid_exhaustive(b, prev, player, depth) ==
    IF is_winner(b, player) THEN 10000 + depth
    ELSE IF is_winner(b, opponent(player)) THEN -10000 - depth
    ELSE IF depth = 0 THEN TheVoid_evaluate(b, player)
    ELSE LET moves == get_legal_moves(b, player)
             vals == {-TheVoid_exhaustive(applied_move(b, moves[k]), b,
                                          opponent(player), depth - 1) :
                          k \in {j \in 1..Len(moves) :
                                    ~is_same_board(applied_move(b, moves[j]), prev)}}
         IN  SetMax(vals \cup {-99999})

\* the depths 1..SearchDepth at which the pruned searches are compared with
\* the exhaustive ones
SearchDepth == 2

NegamaxAgents == {"Kyawan", "KyawanV2", "InoueAgentKAI"}

\* C23: called with the full window, the pruned search returns the score of
\* the exhaustive search, at every depth and for every order of the shuffle;
\* TheVoidAgent._minimax does so with the window (-99999, 99999).
C23_PruningKeepsScore ==
    state = "calling" =>
        \A depth \in 1..SearchDepth :
            /\ player_agents[turn] \in NegamaxAgents =>
                  \A seed \in 0..MaxSeed :
                      negamax(player_agents[turn], turn, board, prev_board, depth,
                              -Inf, Inf, time_remaining[turn], seed)[1]
                        = negamax_exhaustive(player_agents[turn], turn, board,
                                             prev_board, depth, time_remaining[turn])
            /\ player_agents[turn] = "TheVoid" =>
                  TheVoid_minimax(board, prev_board, turn, depth, -99999, 99999)[1]
                    = TheVoid_exhaustive(board, prev_board, turn, depth)

\* C23 witness: a cut acted: below the second root move the search, given
\* the window the first root move left, returned a bound that is not the
\* subtree's exhaustive score
C23_Witness ==
    /\ state = "calling"
    /\ player_agents[turn] \in NegamaxAgents
    /\ Len(get_legal_moves(board, turn)) >= 2
    /\ LET agent == player_agents[turn]
           tr == time_remaining[turn]
           moves == get_legal_moves(board, turn)
           b1 == applied_move(board, moves[1])
           b2 == applied_move(board, moves[2])
           score1 == -(negamax(agent, opponent(turn), b1, board, SearchDepth - 1,
                               -Inf, Inf, tr, 1)[1])
       IN  /\ ~is_same_board(b1, prev_board)
           /\ ~is_same_board(b2, prev_board)
           /\ negamax(agent, opponent(turn), b2, board, SearchDepth - 1,
                      -Inf, -score1, tr, 2)[1]
                # negamax_exhaustive(agent, opponent(turn), b2, board,
                                     SearchDepth - 1, tr)


\* the score the search of `agent` gives the node (b, player to move) with
\* `depth` plies left, seen by the player to move
NodeScore(agent, b, prev, player, depth, tr) ==
    CASE agent \in NegamaxAgents ->
            negamax(agent, player, b, prev, depth, -Inf, Inf, tr, 0)[1]
      [] agent = "TheVoid" ->
            TheVoid_minimax(b, prev, player, depth, -99999, 99999)[1]
      [] agent = "InoueAgent" ->
            Inoue_alphabeta(b, player, depth, -Inf, Inf, player, FALSE, 0, Inf)[1]

\* the agent has returned a move after which the player to move has won
\* and the opponent has not
ReturnedWin ==
    /\ state = "called"
    /\ player_agents[turn] # "RandomAgent"
    /\ last_move \notin {None, Raised}
    /\ is_winner(applied_move(board, last_move), turn)
    /\ ~is_winner(applied_move(board, last_move), opponent(turn))

\* C24: at a node where the player to move has already won the score is at
\* least 10000 and grows with every ply of depth left; at a node where the
\* opponent has won it is at most -10000 and falls with every ply left.
C24_WinScoredAtEveryDepth ==
    ReturnedWin =>
        LET agent == player_agents[turn]
            node == applied_move(board, last_move)
            tr == time_remaining[turn]
            won(d) == NodeScore(agent, node, board, turn, d, tr)
            lost(d) == NodeScore(agent, node, board, opponent(turn), d, tr)
        IN  /\ won(0) >= 10000
            /\ lost(0) <= -10000
            /\ \A d \in 1..SearchDepth :
                  /\ won(d) > won(d - 1)
                  /\ lost(d) < lost(d - 1)


\* the best move of the deepest depth iteration of InoueAgent.calc_best_move
\* that ran with every reading of the clock before the limit; best_move is
\* the result so far, the iteration `depth` starts at reading clk
RECURSIVE Inoue_completed(_, _, _, _, _, _, _, _)
Inoue_completed(b, player, depth, max_depth, has_limit, clk, deadline, best_move) ==
    IF depth > max_depth THEN best_move
    ELSE LET r == Inoue_search_root(b, player, depth, has_limit, clk + 1, deadline)
         IN  IF has_limit /\ r[3] > deadline THEN best_move
             ELSE Inoue_completed(b, player, depth + 1, max_depth, has_limit, r[3],
                                  deadline, IF r[2] # None THEN r[2] ELSE best_move)

\* C25: whenever the time limit passes, InoueAgent.calc_best_move returns the
\* best move of the deepest iteration that ran to completion (legal_moves[0]
\* when none did); an iteration cut short replaces nothing.
C25_KeepsLastCompleted ==
    (/\ state = "calling"
     /\ player_agents[turn] = "InoueAgent"
     /\ get_legal_moves(board, turn) # <<>>) =>
        \A deadline \in Inoue_deadlines(board, turn, time_remaining[turn]) :
            Inoue_calc_best_move(board, prev_board, turn, time_remaining[turn], deadline)
              = Inoue_completed(board, turn, 1, MAX_DEPTH,
                                Inoue_has_limit(time_remaining[turn]), 0, deadline,
                                get_legal_moves(board, turn)[1])


\* the indices of the legal moves after which the player to move has won
WinningIndices ==
    {k \in 1..Len(get_legal_moves(board, turn)) :
        is_winner(applied_move(board, get_legal_moves(board, turn)[k]), turn)}

\* the move the depth-limited search of TheVoidAgent.calc_best_move finds
TheVoid_searched ==
    TheVoid_minimax(board, prev_board, turn,
                    IF time_remaining[turn] > 500 THEN 3 ELSE 2,
                    -99999, 99999)[2]

\* C26: TheVoidAgent returns the first legal move that wins at once when
\* there is one, whatever the search would find; when there is none it
\* returns the move the search finds.
C26_ImmediateWinFirst ==
    (/\ state = "called"
     /\ player_agents[turn] = "TheVoid"
     /\ get_legal_moves(board, turn) # <<>>) =>
        /\ WinningIndices # {} =>
              \E k \in WinningIndices :
                  /\ last_move = get_legal_moves(board, turn)[k]
                  /\ \A j \in WinningIndices : k <= j
        /\ (WinningIndices = {} /\ TheVoid_searched # None) =>
              last_move = TheVoid_searched

\* C26 witness: several moves win at once, the first of them was returned
\* and the search alone finds another one
C26_Witness ==
    /\ state = "called"
    /\ player_agents[turn] = "TheVoid"
    /\ Cardinality(WinningIndices) >= 2
    /\ is_winner(applied_move(board, last_move), turn)
    /\ TheVoid_searched # last_move

\* C26 witness of the other case: no move wins at once and the searched
\* move was returned
C26_WitnessSearch ==
    /\ state = "called"
    /\ player_agents[turn] = "TheVoid"
    /\ get_legal_moves(board, turn) # <<>>
    /\ WinningIndices = {}
    /\ last_move = TheVoid_searched


\* a step of update(), of a worker or of the window: reset() is not called
NoResetStep == resets' = resets

\* IDLE -> THINKING: exactly one worker is started, for the player to move
\* on the current board
IdleToThinking ==
    /\ state = "IDLE" /\ state' = "THINKING"
    /\ Len(workers') = Len(workers) + 1
    /\ workers'[Len(workers')].player = turn
    /\ workers'[Len(workers')].board = board
    /\ UNCHANGED <<board, turn, winner, history, time_remaining>>

\* THINKING -> IDLE: exactly one move is applied and the turn goes to the
\* opponent
ThinkingToIdle ==
    /\ state = "THINKING" /\ state' = "IDLE"
    /\ move_queue # <<>>
    /\ board' = applied_move(board, Head(move_queue))
    /\ history' = Append(history, <<board, Head(move_queue)>>)
    /\ plies' = plies + 1
    /\ turn' = opponent(turn)
    /\ winner' = winner

ThinkingToFinished ==
    /\ state = "THINKING" /\ state' = "FINISHED"
    /\ reason' \in {"timeout", "illegal_move", "win_condition"}

\* C27: between two reset() calls the state changes only IDLE -> THINKING
\* (one worker started), THINKING -> IDLE (one move applied, turn flipped)
\* or THINKING -> FINISHED, and only update() changes it; once FINISHED, no
\* update() and no step of a worker changes the state, board, turn, winner,
\* history or a budget (a budget changes there only by the write of
\* HumanBattleWindow.run, which changes nothing else); and a match FINISHED
\* by win_condition has the player who moved last as winner, who satisfies
\* is_winner on the board.
C27_ThreeStateMachine ==
    /\ [][NoResetStep =>
            /\ state' # state =>
                  /\ IdleToThinking \/ ThinkingToIdle \/ ThinkingToFinished
                  /\ \E dt_ms \in DtChoices : UpdateCall(dt_ms)
            /\ state = "FINISHED" =>
                  /\ UNCHANGED <<state, board, turn, winner, history>>
                  /\ UNCHANGED time_remaining \/ HumanRefill]_vars
    /\ []((state = "FINISHED" /\ reason = "win_condition") =>
            /\ winner = turn
            /\ history # <<>>
            /\ board = applied_move(history[Len(history)][1], history[Len(history)][2])
            /\ is_winner(board, winner))

\* C27 witness: a match that ended by win_condition
C27_Witness ==
    /\ state = "FINISHED"
    /\ reason = "win_condition"
    /\ winner = turn
    /\ plies >= 1

\* C28 as stated: without reset(), with update() called again and again
\* with a dt_ms > 0, the match reaches FINISHED, whatever the agents do.
C28_Terminates ==
    <>(state = "FINISHED")

\* C28 amended: in a match in which nothing but update() writes the budgets
\* (no player is the HumanAgent of HumanBattleWindow), without reset(), with
\* update() called again and again with a dt_ms of a whole number of
\* milliseconds, the match reaches FINISHED, whatever the agents do.
C28_TerminatesWithoutRefill ==
    NoHuman => <>(state = "FINISHED")

\* C28 witness: both agents returned a legal move, both moves were applied,
\* and the ticks of the third turn used up the budget of the player to move
C28_Witness ==
    /\ NoHuman
    /\ state = "FINISHED"
    /\ reason = "timeout"
    /\ resets = 0
    /\ plies = 2
    /\ HistoryLegal
    /\ time_remaining[turn] <= 0


\* the cells in which the board differs from the board before the move
ChangedCells == {j \in 0..(BOARD_SIZE - 1) : board[j] # prev_board[j]}

\* C29: a legal move changes the board: its origin held a piece or the Hole
\* and is Empty afterwards, so the board returned is not the board given
\* (the test `board == prev_board` of the benchmark's draw branch is false).
C29_LegalMoveChangesBoard ==
    state = "applied" =>
        /\ prev_board[Ahead(last_move, 0)] \in Players \cup {HOLE}
        /\ board[Ahead(last_move, 0)] = EMPTY
        /\ Ahead(last_move, 0) \in ChangedCells
        /\ board # prev_board

\* C29 witness: the least a legal move changes: a piece stepped into the
\* Hole and only its origin differs
C29_Witness ==
    /\ RunThenHole
    /\ RunLen(prev_board, last_move) = 1
    /\ ChangedCells = {Ahead(last_move, 0)}

PieceTotal(b) == Count(b, Player1) + Count(b, Player2)

\* C30: a legal move leaves the number of pieces as it was or takes exactly
\* one off; a Hole move takes none; a piece goes only when the pushed run
\* ends at the edge or at the Hole; and neither player's count falls by more
\* than one, nor rises.
C30_AtMostOnePieceRemoved ==
    state = "applied" =>
        /\ PieceTotal(board) \in {PieceTotal(prev_board), PieceTotal(prev_board) - 1}
        /\ HoleMoveApplied => PieceTotal(board) = PieceTotal(prev_board)
        /\ PieceTotal(board) < PieceTotal(prev_board) => (RunThenEdge \/ RunThenHole)
        /\ \A p \in Players :
              Count(board, p) \in {Count(prev_board, p), Count(prev_board, p) - 1}

\* C30 witness: a run of three pieces was pushed against the edge and only
\* its last piece went
C30_Witness ==
    /\ RunThenEdge
    /\ RunLen(prev_board, last_move) = 3
    /\ PieceTotal(board) = PieceTotal(prev_board) - 1
    /\ PieceTotal(board) >= 2

====
